---- MODULE Spec2Model ----
(***************************************************************************)
(* Model of the chat-history embedding pipeline:                           *)
(*   src/smart_chunker.py         topic classifier, conversation segmenter *)
(*   src/daily_embedding_sync.py  checkpoint store, embedding, batch       *)
(*                                writer, sync driver (Lambda handler)     *)
(*                                                                         *)
(* Conventions.  A Python string is a sequence of one-character strings.   *)
(* An optional value (None or v) is the sequence <<>> or <<v>>.  Dates     *)
(* (ISO "YYYY-MM-DD" strings) are naturals whose numeric order is the      *)
(* strings' lexicographic order.  Instants are whole minutes.              *)
(***************************************************************************)
EXTENDS Integers, Sequences, FiniteSets, TLC

None == <<>>

Some(v) == <<v>>

Min2(a, b) == IF a <= b THEN a ELSE b

(***************************************************************************)
(* smart_chunker.py                                                        *)
(***************************************************************************)

RESOLUTION_WORDS ==
  << <<"t", "h", "a", "n", "k", "s">>,
     <<"t", "h", "a", "n", "k", " ", "y", "o", "u">>,
     <<"t", "h", "x">>,
     <<"t", "y">>,
     <<"s", "o", "l", "v", "e", "d">>,
     <<"r", "e", "s", "o", "l", "v", "e", "d">>,
     <<"f", "i", "x", "e", "d">>,
     <<"w", "o", "r", "k", "i", "n", "g", " ", "n", "o", "w">>,
     <<"g", "o", "t", " ", "i", "t">>,
     <<"t", "h", "a", "t", " ", "w", "o", "r", "k", "e", "d">>,
     <<"p", "e", "r", "f", "e", "c", "t">>,
     <<"a", "w", "e", "s", "o", "m", "e">>,
     <<"a", "p", "p", "r", "e", "c", "i", "a", "t", "e", " ", "i", "t">>,
     <<"m", "a", "k", "e", "s", " ", "s", "e", "n", "s", "e">>,
     <<"u", "n", "d", "e", "r", "s", "t", "o", "o", "d">>,
     <<"a", "l", "l", " ", "s", "e", "t">>,
     <<"g", "o", "o", "d", " ", "t", "o", " ", "g", "o">>,
     <<"s", "o", "r", "t", "e", "d">>,
     <<"c", "l", "o", "s", "i", "n", "g", " ", "t", "h", "i", "s">>,
     <<"i", "s", "s", "u", "e", " ", "r", "e", "s", "o", "l", "v", "e", "d">>,
     <<"p", "r", "o", "b", "l", "e", "m", " ", "s", "o", "l", "v", "e", "d">> >>

TOPIC_KEYWORDS ==
  << [topic |-> "vpn", keywords |->
        << <<"v", "p", "n">>,
           <<"n", "e", "t", "w", "o", "r", "k">>,
           <<"c", "o", "n", "n", "e", "c", "t", "i", "o", "n">>,
           <<"p", "r", "o", "x", "y">>,
           <<"t", "u", "n", "n", "e", "l">>,
           <<"z", "s", "c", "a", "l", "e", "r">> >>],
     [topic |-> "terraform", keywords |->
        << <<"t", "e", "r", "r", "a", "f", "o", "r", "m">>,
           <<"t", "f">>,
           <<"m", "o", "d", "u", "l", "e">>,
           <<"p", "r", "o", "v", "i", "d", "e", "r">>,
           <<"s", "t", "a", "t", "e">>,
           <<"t", "f", "v", "a", "r", "s">> >>],
     [topic |-> "iam", keywords |->
        << <<"i", "a", "m">>,
           <<"r", "o", "l", "e">>,
           <<"p", "o", "l", "i", "c", "y">>,
           <<"p", "e", "r", "m", "i", "s", "s", "i", "o", "n">>,
           <<"a", "c", "c", "e", "s", "s">>,
           <<"s", "a", "m", "l">>,
           <<"f", "e", "d", "e", "r", "a", "t", "i", "o", "n">> >>],
     [topic |-> "aws", keywords |->
        << <<"a", "w", "s">>,
           <<"a", "m", "a", "z", "o", "n">>,
           <<"s", "3">>,
           <<"e", "c", "2">>,
           <<"l", "a", "m", "b", "d", "a">>,
           <<"c", "l", "o", "u", "d", "w", "a", "t", "c", "h">>,
           <<"b", "e", "d", "r", "o", "c", "k">> >>],
     [topic |-> "deployment", keywords |->
        << <<"d", "e", "p", "l", "o", "y">>,
           <<"p", "i", "p", "e", "l", "i", "n", "e">>,
           <<"c", "i", "c", "d">>,
           <<"j", "e", "n", "k", "i", "n", "s">>,
           <<"g", "i", "t", "h", "u", "b">>,
           <<"a", "c", "t", "i", "o", "n", "s">> >>],
     [topic |-> "troubleshooting", keywords |->
        << <<"e", "r", "r", "o", "r">>,
           <<"f", "a", "i", "l", "e", "d">>,
           <<"i", "s", "s", "u", "e">>,
           <<"p", "r", "o", "b", "l", "e", "m">>,
           <<"h", "e", "l", "p">>,
           <<"f", "i", "x">>,
           <<"b", "r", "o", "k", "e", "n">> >>],
     [topic |-> "security", keywords |->
        << <<"s", "e", "c", "u", "r", "i", "t", "y">>,
           <<"e", "n", "c", "r", "y", "p", "t">>,
           <<"k", "m", "s">>,
           <<"s", "e", "c", "r", "e", "t", "s">>,
           <<"c", "r", "e", "d", "e", "n", "t", "i", "a", "l">>,
           <<"t", "o", "k", "e", "n">> >>],
     [topic |-> "cost", keywords |->
        << <<"c", "o", "s", "t">>,
           <<"b", "i", "l", "l", "i", "n", "g">>,
           <<"f", "i", "n", "o", "p", "s">>,
           <<"b", "u", "d", "g", "e", "t">>,
           <<"s", "p", "e", "n", "d">>,
           <<"s", "a", "v", "i", "n", "g", "s">> >>] >>

UpperCase ==
  [c \in {"A","B","C","D","E","F","G","H","I","J","K","L","M",
          "N","O","P","Q","R","S","T","U","V","W","X","Y","Z"} |->
     CASE c = "A" -> "a" [] c = "B" -> "b" [] c = "C" -> "c" [] c = "D" -> "d"
       [] c = "E" -> "e" [] c = "F" -> "f" [] c = "G" -> "g" [] c = "H" -> "h"
       [] c = "I" -> "i" [] c = "J" -> "j" [] c = "K" -> "k" [] c = "L" -> "l"
       [] c = "M" -> "m" [] c = "N" -> "n" [] c = "O" -> "o" [] c = "P" -> "p"
       [] c = "Q" -> "q" [] c = "R" -> "r" [] c = "S" -> "s" [] c = "T" -> "t"
       [] c = "U" -> "u" [] c = "V" -> "v" [] c = "W" -> "w" [] c = "X" -> "x"
       [] c = "Y" -> "y" [] c = "Z" -> "z"]

\* str.lower()
Lower(text) ==
  [i \in 1..Len(text) |->
     IF text[i] \in DOMAIN UpperCase THEN UpperCase[text[i]] ELSE text[i]]

\* Python's  word in text  on strings: substring containment
Contains(text, word) ==
  \E i \in 1..(Len(text) - Len(word) + 1) :
     SubSeq(text, i, i + Len(word) - 1) = word

\* only a text that is a resolution word and nothing else counts
detectResolutionWholeText(text) ==
  \E w \in 1..Len(RESOLUTION_WORDS) : Lower(text) = RESOLUTION_WORDS[w]

detectResolution(text) ==
  LET text_lower == Lower(text)
  IN  \E w \in 1..Len(RESOLUTION_WORDS) :
         Contains(text_lower, RESOLUTION_WORDS[w])

\* the topics whose keyword list has a keyword occurring in the text, in
\* the order of the keyword table; ['general'] when there is none
detectTopicsIn(keywordTable, text) ==
  LET text_lower == Lower(text)
      hit(t) == \E k \in 1..Len(keywordTable[t].keywords) :
                   Contains(text_lower, keywordTable[t].keywords[k])
      detected == SelectSeq([t \in 1..Len(keywordTable) |->
                               IF hit(t) THEN Some(keywordTable[t].topic)
                                         ELSE None],
                            LAMBDA o : o # None)
  IN  IF Len(detected) > 0
        THEN [i \in 1..Len(detected) |-> detected[i][1]]
        ELSE <<"general">>

\* the first topic found returned alone
detectTopicsFirstOnly(text) == <<detectTopicsIn(TOPIC_KEYWORDS, text)[1]>>

detectTopics(text) == detectTopicsIn(TOPIC_KEYWORDS, text)

getPrimaryTopic(topics) ==
  LET nonGeneral == SelectSeq(topics, LAMBDA t : t # "general")
  IN  IF Len(nonGeneral) > 0 THEN nonGeneral[1] ELSE "general"

(***************************************************************************)
(* A timestamp string is the record [day, min, form]:                      *)
(*   "naive"  "2024-01-<day>T<min>:00"          no offset                  *)
(*   "fracZ"  "2024-01-<day>T<min>:00.000Z"     fractional seconds, Z      *)
(*   "Z"      "2024-01-<day>T<min>:00Z"                                    *)
(*   "bad"    a text that is no ISO timestamp and has no 'T' (day=min=0)   *)
(*   "None"   str(None), the text of a missing timestamp (day=min=0)       *)
(* A datetime is [aware, minute]: minute counts from the start of day 0.   *)
(***************************************************************************)
MinutesPerDay == 1440

WellFormed == {"naive", "fracZ", "Z"}

\* suffix order of the forms under string comparison: "" < ".000Z" < "Z"
SuffixRank(form) ==
  CASE form = "naive" -> 0 [] form = "fracZ" -> 1 [] form = "Z" -> 2
    [] OTHER -> 0

\* s < t for two timestamp strings (digits sort before letters)
StrLess(s, t) ==
  LET bs == IF s.form \in WellFormed THEN 0 ELSE 1
      bt == IF t.form \in WellFormed THEN 0 ELSE 1
  IN  \/ bs < bt
      \/ /\ bs = bt /\ bs = 0
         /\ \/ s.day < t.day
            \/ s.day = t.day /\ s.min < t.min
            \/ s.day = t.day /\ s.min = t.min
                 /\ SuffixRank(s.form) < SuffixRank(t.form)
      \/ bs = bt /\ bs = 1 /\ s.form = "bad" /\ t.form = "None"

\* str(ts) of an optional timestamp
Str(ts) == IF ts = None THEN [day |-> 0, min |-> 0, form |-> "None"] ELSE ts[1]

parseTimestamp(ts, now) ==
  IF ts = None THEN [aware |-> FALSE, minute |-> now]
  ELSE CASE ts[1].form = "Z" ->
              [aware |-> TRUE, minute |-> ts[1].day * MinutesPerDay + ts[1].min]
         [] ts[1].form = "fracZ" ->
              [aware |-> TRUE, minute |-> ts[1].day * MinutesPerDay + ts[1].min]
         [] ts[1].form = "naive" ->
              [aware |-> FALSE, minute |-> ts[1].day * MinutesPerDay + ts[1].min]
         [] OTHER -> [aware |-> FALSE, minute |-> now]

\* datetime subtraction raises TypeError for an aware and a naive operand
SubtractRaises(a, b) == a.aware # b.aware

\* f"[{sender}]: {text}"
Render(msg) == <<"[">> \o msg.sender \o <<"]", ":", " ">> \o msg.text

RECURSIVE JoinLines(_)
\* '\n'.join(parts)
JoinLines(parts) ==
  IF Len(parts) = 0 THEN <<>>
  ELSE IF Len(parts) = 1 THEN parts[1]
  ELSE parts[1] \o <<"\n">> \o JoinLines(Tail(parts))

\* every message of the chunk looked at
LastThreeAll(messages) == messages

\* messages[-3:]
LastThree(messages) ==
  SubSeq(messages, IF Len(messages) > 3 THEN Len(messages) - 2 ELSE 1,
         Len(messages))

\* str(start_time).split('T')[0] if 'T' in it, else its first 10 characters
ChunkDate(s) ==
  IF s.form \in WellFormed THEN <<"date", s.day>> ELSE <<"text", s.form>>

createChunk(messages, channel_id, index) ==
  LET start_time == messages[1].timestamp
      end_time == messages[Len(messages)].timestamp
      chunk_text == JoinLines([i \in 1..Len(messages) |-> Render(messages[i])])
      topics == detectTopics(chunk_text)
      tail3 == LastThree(messages)
      is_complete == \E i \in 1..Len(tail3) : detectResolution(tail3[i].text)
      chunk_date == ChunkDate(Str(start_time))
  IN  [chunk_id |-> <<channel_id, chunk_date, index>>,
       text |-> chunk_text,
       metadata |->
         [type |-> Some("chat_history"),
          channel_id |-> Some(channel_id),
          timestamp |-> Some(chunk_date),
          topics |-> Some(topics),
          primary_topic |-> Some(getPrimaryTopic(topics)),
          is_thread_complete |-> Some(is_complete),
          is_verified |-> Some(FALSE),
          priority |-> Some(0),
          start_time |-> Some(Str(start_time)),
          end_time |-> Some(Str(end_time)),
          message_count |-> Some(Len(messages)),
          chunk_text |-> Some(SubSeq(chunk_text, 1, Min2(2000, Len(chunk_text)))),
          corrects_vector_key |-> None,
          original_question |-> None,
          verified_answer |-> None]]

RECURSIVE InsertByTimestamp(_, _)
\* place msg after every message whose key is not greater (stable)
InsertByTimestamp(sorted, msg) ==
  IF Len(sorted) = 0 THEN <<msg>>
  ELSE IF StrLess(msg.timestamp[1], sorted[Len(sorted)].timestamp[1])
         THEN Append(InsertByTimestamp(SubSeq(sorted, 1, Len(sorted) - 1), msg),
                     sorted[Len(sorted)])
         ELSE Append(sorted, msg)

RECURSIVE SortByTimestamp(_)
\* sorted(messages, key=lambda x: x.get('timestamp', ''))
SortByTimestamp(messages) ==
  IF Len(messages) <= 1 THEN messages
  ELSE InsertByTimestamp(SortByTimestamp(SubSeq(messages, 1, Len(messages) - 1)),
                         messages[Len(messages)])

\* comparing the key None with any other key raises TypeError
SortRaises(messages) ==
  Len(messages) >= 2 /\ \E i \in 1..Len(messages) : messages[i].timestamp = None

\* the gap taken in hours
GapExceedsInHours(gap, gap_minutes) == gap \div 60 > gap_minutes

\* "if gap > gap_minutes", gap in minutes
GapExceeds(gap, gap_minutes) == gap > gap_minutes

\* the limit taken to be reached one message early
AtMaxMessagesEarly(size, max_messages) == size + 1 >= max_messages

\* "if len(current_chunk) >= max_messages"
AtMaxMessages(size, max_messages) == size >= max_messages

\* a question mark and a pause both required
ResolutionFollowUpBoth(text, hasLast, gap) ==
  Contains(text, <<"?">>) /\ hasLast /\ gap > 10

\* "'?' in msg.get('text', '') or (last_timestamp and (...) / 60 > 10)"
ResolutionFollowUp(text, hasLast, gap) ==
  Contains(text, <<"?">>) \/ (hasLast /\ gap > 10)

\* the index left as it is when a chunk is closed
NextIndexSame(chunk_index) == chunk_index

\* "chunk_index += 1"
NextIndex(chunk_index) == chunk_index + 1

\* one iteration of the loop over sorted_messages
ChunkStep(st, msg, channel_id, gap_minutes, max_messages, max_chars, now) ==
  LET ts == parseTimestamp(msg.timestamp, now)
      msg_text == Render(msg)
      hasLast == st.last_timestamp # None
      raises == hasLast /\ SubtractRaises(ts, st.last_timestamp[1])
      gap == IF hasLast THEN ts.minute - st.last_timestamp[1].minute ELSE 0
      open == Len(st.current_chunk) > 0
      should_split ==
        \/ hasLast /\ GapExceeds(gap, gap_minutes)
        \/ AtMaxMessages(Len(st.current_chunk), max_messages)
        \/ st.current_chars + Len(msg_text) > max_chars
        \/ /\ open
           /\ detectResolution(st.current_chunk[Len(st.current_chunk)].text)
           /\ ResolutionFollowUp(msg.text, hasLast, gap)
      closed == should_split /\ open
  IN  IF st.raised THEN st
      ELSE IF raises THEN [st EXCEPT !.raised = TRUE]
      ELSE [raised |-> FALSE,
            chunks |-> IF closed
                         THEN Append(st.chunks,
                                     createChunk(st.current_chunk, channel_id,
                                                 st.chunk_index))
                         ELSE st.chunks,
            current_chunk |-> IF closed THEN <<msg>>
                              ELSE Append(st.current_chunk, msg),
            current_chars |-> IF closed THEN Len(msg_text)
                              ELSE st.current_chars + Len(msg_text),
            last_timestamp |-> Some(ts),
            chunk_index |-> IF closed THEN NextIndex(st.chunk_index)
                            ELSE st.chunk_index]

RECURSIVE ChunkLoop(_, _, _, _, _, _, _)
ChunkLoop(st, msgs, channel_id, gap_minutes, max_messages, max_chars, now) ==
  IF Len(msgs) = 0 THEN st
  ELSE ChunkLoop(ChunkStep(st, msgs[1], channel_id, gap_minutes, max_messages,
                           max_chars, now),
                 Tail(msgs), channel_id, gap_minutes, max_messages, max_chars,
                 now)

\* result [raised, chunks]: raised when the call ends in an exception
chunkByConversation(messages, channel_id, gap_minutes, max_messages, max_chars, now) ==
  IF Len(messages) = 0 THEN [raised |-> FALSE, chunks |-> <<>>]
  ELSE IF SortRaises(messages) THEN [raised |-> TRUE, chunks |-> <<>>]
  ELSE
    LET end == ChunkLoop([raised |-> FALSE, chunks |-> <<>>,
                          current_chunk |-> <<>>, current_chars |-> 0,
                          last_timestamp |-> None, chunk_index |-> 0],
                         SortByTimestamp(messages), channel_id, gap_minutes,
                         max_messages, max_chars, now)
    IN  IF end.raised THEN [raised |-> TRUE, chunks |-> <<>>]
        ELSE [raised |-> FALSE,
              chunks |-> IF Len(end.current_chunk) > 0
                           THEN Append(end.chunks,
                                       createChunk(end.current_chunk, channel_id,
                                                   end.chunk_index))
                           ELSE end.chunks]

(***************************************************************************)
(* daily_embedding_sync.py: pure parts                                     *)
(***************************************************************************)

\* chunkByConversation defaults, used by processNewFiles
DefaultGapMinutes == 30

DefaultMaxMessages == 50

DefaultMaxChars == 4000

\* "Reserve 30s for cleanup and SSM write"
SafetyMarginMs == 30000

\* number of objects of ObjectPool that are in the source bucket
MaxFiles == 7

\* config['batch_size'] (environment BATCH_SIZE)
BatchSize == 1

\* remaining-time readings the invocation context can report
RemainingChoices == {SafetyMarginMs - 1, SafetyMarginMs}

\* wall-clock readings (minutes) of datetime.now() during an invocation
NowChoices == {10 * MinutesPerDay}

T(day, min) == Some([day |-> day, min |-> min, form |-> "Z"])

Raw(created, email, text, id) ==
  [created |-> created, personEmail |-> email, personDisplayName |-> None,
   text |-> text, id |-> id]

(***************************************************************************)
(* The objects under feed/ in listing (key) order.  A key is               *)
(* feed/<name tokens joined by '_'>_<suffix>; a body is the parsed JSON    *)
(* list, or None when it is no valid JSON.                                 *)
(***************************************************************************)
ObjectPool ==
  << \* feed/1_1_chat.json: resolution, then a message 18 minutes later
     [key |-> [name |-> <<1, 1>>, suffix |-> "chat.json"],
      body |-> Some(<< Raw(T(1, 600), Some(<<"a">>), Some(<<"v","p","n","?">>), Some(1)),
                       Raw(T(1, 602), Some(<<"b">>), Some(<<"T","h","x">>), Some(2)),
                       Raw(T(1, 602), Some(<<"b">>), Some(<<"T","h","x">>), Some(2)),
                       Raw(T(1, 620), Some(<<"a">>), Some(<<"o","k">>), Some(3)) >>)],
     \* feed/1_2_chat.json: the file of day 2 begins with a message written
     \* late on day 1
     [key |-> [name |-> <<1, 2>>, suffix |-> "chat.json"],
      body |-> Some(<< Raw(T(1, 1430), Some(<<"a">>), Some(<<"h","i">>), Some(4)),
                       Raw(T(2, 601), None, None, Some(5)) >>)],
     \* feed/1_readme.txt
     [key |-> [name |-> <<1>>, suffix |-> "readme.txt"],
      body |-> None],
     \* feed/2_1_chat.json: same date as the first object, listed after day 2
     [key |-> [name |-> <<2, 1>>, suffix |-> "chat.json"],
      body |-> Some(<< Raw(T(1, 900), Some(<<"c">>), Some(<<"t","f">>), None) >>)],
     \* feed/2_2_chat.json: one message without a timestamp
     [key |-> [name |-> <<2, 2>>, suffix |-> "chat.json"],
      body |-> Some(<< Raw(T(2, 700), Some(<<"c">>), Some(<<"h","i">>), Some(6)),
                       Raw(None, Some(<<"c">>), Some(<<"o","k">>), Some(7)) >>)],
     \* feed/3_3_chat.json
     [key |-> [name |-> <<3, 3>>, suffix |-> "chat.json"],
      body |-> Some(<< Raw(T(3, 610), Some(<<"a">>), Some(<<"o","k">>), Some(8)) >>)],
     \* feed/4_2_chat.json: the last key listed does not have the last date
     [key |-> [name |-> <<4, 2>>, suffix |-> "chat.json"],
      body |-> Some(<< Raw(T(2, 800), Some(<<"b">>), Some(<<"s","3">>), Some(9)) >>)],
     \* feed/5_4_chat.json: no message has a text
     [key |-> [name |-> <<5, 4>>, suffix |-> "chat.json"],
      body |-> Some(<< Raw(T(4, 600), Some(<<"a">>), Some(<<>>), Some(10)) >>)] >>

Bucket == SubSeq(ObjectPool, 1, Min2(MaxFiles, Len(ObjectPool)))

\* ssm.get_parameter: the stored value, or None for ParameterNotFound and
\* for any other exception
getLastProcessedDate(stored, readFails) ==
  IF readFails THEN None ELSE stored

\* key.endswith('_chat.json')
EndsWithChatJson(key) == key.suffix = "chat.json" /\ Len(key.name) >= 1

\* filename.rsplit('_', 2) -> parts; parts[0] is the room, parts[-2] the date
FileInfo(key) ==
  LET k == Len(key.name)
  IN  [key |-> key,
       room_id |-> IF k >= 2 THEN SubSeq(key.name, 1, k - 1) ELSE key.name,
       date |-> key.name[k]]

\* the filter with < in place of <=
DateFilteredOutStrict(since_date, file_date) ==
  since_date # None /\ file_date < since_date[1]

\* "if since_date and file_date <= since_date: continue"
DateFilteredOut(since_date, file_date) ==
  since_date # None /\ file_date <= since_date[1]

RECURSIVE getNewChatFiles(_, _)
getNewChatFiles(objects, since_date) ==
  IF Len(objects) = 0 THEN <<>>
  ELSE LET key == objects[1].key
           rest == getNewChatFiles(Tail(objects), since_date)
       IN  IF ~EndsWithChatJson(key) THEN rest
           ELSE IF DateFilteredOut(since_date, FileInfo(key).date)
                  THEN rest
                  ELSE <<FileInfo(key)>> \o rest

BodyOf(key) ==
  LET i == CHOOSE j \in 1..Len(Bucket) : Bucket[j].key = key
  IN  Bucket[i].body

\* [] when s3.get_object or json.loads raises
loadAndTransformMessages(file_info, getFails) ==
  IF getFails \/ BodyOf(file_info.key) = None THEN <<>>
  ELSE LET messages == BodyOf(file_info.key)[1]
           kept == SelectSeq(messages,
                             LAMBDA m : m.text # None /\ Len(m.text[1]) > 0)
       IN  [i \in 1..Len(kept) |->
              [timestamp |-> kept[i].created,
               sender |-> IF kept[i].personEmail # None
                            THEN kept[i].personEmail[1]
                            ELSE IF kept[i].personDisplayName # None
                                   THEN kept[i].personDisplayName[1]
                                   ELSE <<"U","n","k","n","o","w","n">>,
               text |-> kept[i].text[1],
               room_id |-> file_info.room_id,
               message_id |-> kept[i].id]]

\* the messages without an id left out
DedupeDropNoId(messages, seen_ids) ==
  SelectSeq(messages, LAMBDA m : m.message_id # None)

RECURSIVE Dedupe(_, _)
\* the seen_ids / unique_messages loop
Dedupe(messages, seen_ids) ==
  IF Len(messages) = 0 THEN <<>>
  ELSE LET msg == messages[1]
           msg_id == msg.message_id
       IN  IF msg_id # None /\ msg_id[1] \notin seen_ids
             THEN <<msg>> \o Dedupe(Tail(messages), seen_ids \cup {msg_id[1]})
             ELSE IF msg_id = None
                    THEN <<msg>> \o Dedupe(Tail(messages), seen_ids)
                    ELSE Dedupe(Tail(messages), seen_ids)

\* the file appended without comparing dates
InsertByDateAppend(sorted, f) == Append(sorted, f)

RECURSIVE InsertByDate(_, _)
InsertByDate(sorted, f) ==
  IF Len(sorted) = 0 THEN <<f>>
  ELSE IF f.date < sorted[Len(sorted)].date
         THEN Append(InsertByDate(SubSeq(sorted, 1, Len(sorted) - 1), f),
                     sorted[Len(sorted)])
         ELSE Append(sorted, f)

\* the files left in listing order
SortByDateSkipped(files) == files

RECURSIVE SortByDate(_)
\* sorted(files, key=lambda f: f.get('date', ''))
SortByDate(files) ==
  IF Len(files) <= 1 THEN files
  ELSE InsertByDate(SortByDate(SubSeq(files, 1, Len(files) - 1)),
                    files[Len(files)])

\* getEmbedding: the vector the model returns for a text
getEmbedding(text) == [of |-> text]

\* the results returned in the reverse of the input order
getEmbeddingsParallelReversed(texts, failing) ==
  [i \in 1..Len(texts) |->
     LET j == Len(texts) + 1 - i
     IN  IF j \in failing
           THEN [index |-> j - 1, embedding |-> None, error |-> Some("err")]
           ELSE [index |-> j - 1, embedding |-> Some(getEmbedding(texts[j])),
                 error |-> None]]

\* getEmbeddingsParallel: one result per text, in input order
getEmbeddingsParallel(texts, failing) ==
  [i \in 1..Len(texts) |->
     IF i \in failing
       THEN [index |-> i - 1, embedding |-> None, error |-> Some("err")]
       ELSE [index |-> i - 1, embedding |-> Some(getEmbedding(texts[i])),
             error |-> None]]

\* {k: v for k, v in metadata.items() if v is not None}
Sanitize(metadata) ==
  [k \in {n \in DOMAIN metadata : metadata[n] # None} |-> metadata[k][1]]

RECURSIVE PrepareVectors(_, _, _)
\* the loop over zip(chunks, embedding_results)
PrepareVectors(chunkSeq, embResults, project_id) ==
  IF Len(chunkSeq) = 0 \/ Len(embResults) = 0 THEN <<>>
  ELSE LET rest == PrepareVectors(Tail(chunkSeq), Tail(embResults), project_id)
       IN  IF embResults[1].error # None THEN rest
           ELSE << [key |-> chunkSeq[1].chunk_id,
                    embedding |-> embResults[1].embedding[1],
                    metadata |->
                      Sanitize([k \in DOMAIN chunkSeq[1].metadata
                                      \cup {"project_id", "source"} |->
                                  CASE k = "project_id" -> Some(project_id)
                                    [] k = "source" -> Some("webex")
                                    [] OTHER -> chunkSeq[1].metadata[k]])] >>
                \o rest

\* no error recorded for a failed embedding
EmbeddingErrorsNone(file_info, chunkSeq, embResults) == <<>>

\* the error records appended for the chunks whose embedding failed
EmbeddingErrors(file_info, chunkSeq, embResults) ==
  LET failed == SelectSeq([i \in 1..Len(chunkSeq) |->
                             IF embResults[i].error # None
                               THEN Some([file |-> file_info.key,
                                          chunk_id |-> chunkSeq[i].chunk_id,
                                          error |-> "err"])
                               ELSE None],
                          LAMBDA o : o # None)
  IN  [i \in 1..Len(failed) |-> failed[i][1]]

\* a loop that returns after its first iteration
RangeHasNextFirstOnly(i, n) == i = 0 /\ i < n

\* "for i in range(0, len(vectors), batch_size)": offset i is in the range
RangeHasNext(i, n) == i < n

\* the slice one vector short
BatchAtShort(vectors, i, batch_size) ==
  SubSeq(vectors, i + 1, Min2(i + batch_size, Len(vectors)) - 1)

\* vectors[i:i + batch_size], i counted from 0
BatchAt(vectors, i, batch_size) ==
  SubSeq(vectors, i + 1, Min2(i + batch_size, Len(vectors)))

\* s3vectors.put_vectors: a stored vector replaces the one with its key
PutVectors(index, batch) ==
  LET keys == {batch[j].key : j \in 1..Len(batch)}
      newest(k) == batch[CHOOSE j \in 1..Len(batch) :
                           /\ batch[j].key = k
                           /\ \A l \in (j + 1)..Len(batch) : batch[l].key # k]
  IN  {v \in index : v.key \notin keys}
        \cup {[key |-> k, data |-> newest(k).embedding,
               metadata |-> newest(k).metadata] : k \in keys}

\* the margin compared one millisecond too low
\* the loop left at a source that is given up
AfterSkipBreak(i, n) == n + 1

\* "continue" and the end of the except clause: the for loop goes on with
\* the next file of files_sorted
AfterSkip(i, n) == i + 1

\* the successful put counted as one
StoredAfterCountCalls(stored, batch) == stored + 1

\* "total_stored += len(batch)"
StoredAfter(stored, batch) == stored + Len(batch)

\* the kinds of context an invocation can be given: None, an object without
\* get_remaining_time_in_millis, the Lambda context
ContextKinds == {"none", "plain", "lambda"}

\* the remaining time consulted whatever the context is
HasTimeSignalAlways(ctx) == TRUE

\* "context and hasattr(context, 'get_remaining_time_in_millis')"
HasTimeSignal(ctx) == ctx # "none" /\ ctx = "lambda"

ShouldStopEarlyOffByOne(hasContext, remaining) ==
  hasContext /\ remaining < SafetyMarginMs - 1

\* "if remaining_ms < 30_000: break", guarded by the presence of a context
ShouldStopEarly(hasContext, remaining) ==
  hasContext /\ remaining < SafetyMarginMs

\* the date passed to setLastProcessedDate after a file
CheckpointDate(file_info) == file_info.date

\* a failed put_parameter leaves the parameter without a value
setLastProcessedDateClears(stored, date_str, putFails) ==
  IF putFails THEN None ELSE Some(date_str)

\* ssm.put_parameter(Overwrite=True); an exception is logged and swallowed
setLastProcessedDate(stored, date_str, putFails) ==
  IF putFails THEN stored ELSE Some(date_str)

\* PROJECT_ID default
ProjectId == "ccoe-chat-history"

\* downstream failures injected into one invocation
MaxFaults == 1

(***************************************************************************)
(* handler / processNewFiles as a state machine                            *)
(***************************************************************************)
VARIABLES
  ssm,              \* SSM parameter last-processed-date: None or <<date>>
  vectorIndex,      \* the vectors in the S3 Vectors index
  pc,               \* position of the handler
  context,          \* the kind of context the handler was given
  last_date,        \* what getLastProcessedDate returned
  read_outcome,     \* "ok", "notfound" or "error": what get_parameter did
  new_files,        \* what getNewChatFiles returned
  files_sorted,     \* processNewFiles: files sorted by date
  fileIdx,          \* 1-based position of the loop in files_sorted
  remaining_ms,     \* last reading of the remaining time, None before one
  chunks,           \* chunks of the current file
  vectors_to_store, \* vectors of the current file
  batch_i,          \* storeVectorsBatch: offset of the next batch
  store_result,     \* storeVectorsBatch: [stored, errors]
  results,          \* processNewFiles: [files_processed, vectors_stored, errors]
  response,         \* what the handler returned last
  faults,           \* downstream failures so far in this invocation
  loaded,           \* keys of the files loaded in this invocation
  skipped,          \* keys of the files that failed as a whole in it
  ssmPuts,          \* values put to the SSM parameter in this invocation
  tally,            \* what happened in this invocation, counted as it happens
  produced,         \* the chunks made in this invocation: [file, chunk_id]
  lastOutcome,      \* how the latest invocation ended ("running" during it)
  lastCkptOk,       \* it checkpointed the last file of its sorted list
  prevOutcome,      \* lastOutcome of the invocation before the latest
  prevCkptOk        \* lastCkptOk of the invocation before the latest

\* getEmbeddingsParallel, storeVectorsBatch and chunkByConversation called
\* on their own
VARIABLES
  eTexts,           \* getEmbeddingsParallel: texts
  eMaxWorkers,      \* max_workers
  eNext,            \* 0-based index of the next text to submit
  eQueue,           \* the executor's work queue: indices submitted, not begun
  eRunning,         \* indices whose embedSingle is running in a worker
  eDone,            \* results of the finished futures as_completed has not
                    \* yielded yet
  eResults,         \* results: None or <<result>> per text
  eYielded,         \* indices of the futures as_completed has yielded, in order
  eCount,           \* per index: times submitted, times getEmbedding called
  eFailed,          \* indices whose getEmbedding call raised
  ePc,              \* "idle", "run" or "returned"
  wVectors,         \* storeVectorsBatch: vectors
  wBatchSize,       \* batch_size
  wI,               \* i of the for loop
  wResult,          \* [stored |-> total_stored, errors |-> errors]
  wPuts,            \* the put_vectors calls made: [start, batch, ok]
  wIndex,           \* the index the calls write to
  wPc,              \* "idle", "loop" or "returned"
  cIn,              \* chunkByConversation: its arguments (and the clock)
  cOut,             \* None before the call, then <<[raised, chunks]>>
  cAgain,           \* None, then the result of a second call on the same
                    \* arguments: <<[raised, chunks]>>
  dMessages,        \* the deduplication loop: messages
  dUnique,          \* None before it runs, then <<unique_messages>>
  tText,            \* detectTopics: text
  tTopics,          \* None before the call, then <<the topics returned>>
  tTable,           \* the module's TOPIC_KEYWORDS as it is now
  kMessages,        \* createChunk: messages
  kChunk            \* None before the call, then <<the chunk returned>>

driverVars == <<ssm, vectorIndex, pc, context, last_date, read_outcome, new_files,
          files_sorted, fileIdx, remaining_ms, chunks, vectors_to_store,
          batch_i, store_result, results, response, faults, loaded, skipped,
          ssmPuts, tally, produced, lastOutcome, lastCkptOk, prevOutcome,
          prevCkptOk>>

poolVars == <<eTexts, eMaxWorkers, eNext, eQueue, eRunning, eDone, eResults,
              eYielded, eCount, eFailed, ePc>>

writerVars == <<wVectors, wBatchSize, wI, wResult, wPuts, wIndex, wPc>>

chunkerVars == <<cIn, cOut, cAgain>>

pureVars == <<dMessages, dUnique, tText, tTopics, tTable, kMessages, kChunk>>

libVars == <<poolVars, writerVars, chunkerVars, pureVars>>

vars == <<driverVars, libVars>>

perFile == <<chunks, vectors_to_store, batch_i, store_result>>

prev == <<prevOutcome, prevCkptOk>>

\* nothing has failed, been written or been checkpointed yet
NoTally == [embedding |-> 0, batch |-> 0, source |-> 0, written |-> 0,
            checkpointed |-> 0]

NoStoreResult == [stored |-> 0, errors |-> <<>>]

NoResults == [files_processed |-> 0, vectors_stored |-> 0, errors |-> <<>>]

NoResponse == [statusCode |-> 0, message |-> "", files_processed |-> 0,
               vectors_stored |-> 0, errors |-> 0]

\* no call of getEmbeddingsParallel on its own
PoolIdle ==
  /\ eTexts = <<>>
  /\ eMaxWorkers = 1
  /\ eNext = 0
  /\ eQueue = <<>>
  /\ eRunning = {}
  /\ eDone = {}
  /\ eResults = <<>>
  /\ eYielded = <<>>
  /\ eCount = <<>>
  /\ eFailed = {}
  /\ ePc = "idle"

\* no call of storeVectorsBatch on its own
WriterIdle ==
  /\ wVectors = <<>>
  /\ wBatchSize = 1
  /\ wI = 0
  /\ wResult = NoStoreResult
  /\ wPuts = <<>>
  /\ wIndex = {}
  /\ wPc = "idle"

\* no call of chunkByConversation on its own
ChunkerIdle ==
  /\ cIn = None
  /\ cOut = None
  /\ cAgain = None

\* the deployed function before its first invocation
DriverInit ==
  /\ ssm = None
  /\ vectorIndex = {}
  /\ pc = "idle"
  /\ context = "none"
  /\ last_date = None
  /\ read_outcome = "notfound"
  /\ new_files = <<>>
  /\ files_sorted = <<>>
  /\ fileIdx = 1
  /\ remaining_ms = None
  /\ chunks = <<>>
  /\ vectors_to_store = <<>>
  /\ batch_i = 0
  /\ store_result = NoStoreResult
  /\ results = NoResults
  /\ response = NoResponse
  /\ faults = 0
  /\ loaded = {}
  /\ skipped = {}
  /\ ssmPuts = <<>>
  /\ tally = NoTally
  /\ produced = <<>>
  /\ lastOutcome = "none"
  /\ lastCkptOk = FALSE
  /\ prevOutcome = "none"
  /\ prevCkptOk = FALSE

\* no call of the deduplication loop, detectTopics or createChunk on its own
PureIdle ==
  /\ dMessages = <<>>
  /\ dUnique = None
  /\ tText = <<>>
  /\ tTopics = None
  /\ tTable = TOPIC_KEYWORDS
  /\ kMessages = <<>>
  /\ kChunk = None

Init == DriverInit /\ PoolIdle /\ WriterIdle /\ ChunkerIdle /\ PureIdle

CurrentFile == files_sorted[fileIdx]

\* the local variables of processNewFiles end with the call, and with them
\* the record of what the invocation did
ResetLocals ==
  /\ files_sorted' = <<>>
  /\ fileIdx' = 1
  /\ remaining_ms' = None
  /\ chunks' = <<>>
  /\ vectors_to_store' = <<>>
  /\ batch_i' = 0
  /\ store_result' = NoStoreResult
  /\ results' = NoResults
  /\ loaded' = {}
  /\ skipped' = {}
  /\ ssmPuts' = <<>>
  /\ tally' = NoTally
  /\ produced' = <<>>

\* handler up to the call of processNewFiles (or the 'No new files' return)
Invoke ==
  /\ pc = "idle"
  /\ \E readFails \in BOOLEAN, hasContext \in ContextKinds :
       LET ld == getLastProcessedDate(ssm, readFails)
           nf == getNewChatFiles(Bucket, ld)
       IN  /\ readFails => MaxFaults > 0
           /\ faults' = IF readFails THEN 1 ELSE 0
           /\ context' = hasContext
           /\ last_date' = ld
           /\ read_outcome' = IF readFails THEN "error"
                              ELSE IF ssm = None THEN "notfound" ELSE "ok"
           /\ new_files' = nf
           /\ IF Len(nf) = 0
                THEN /\ pc' = "idle"
                     /\ files_sorted' = <<>>
                     /\ response' = [statusCode |-> 200,
                                     message |-> "No new files",
                                     files_processed |-> 0,
                                     vectors_stored |-> 0, errors |-> 0]
                     /\ lastOutcome' = "nonew"
                ELSE /\ pc' = "check"
                     /\ files_sorted' = SortByDate(nf)
                     /\ response' = NoResponse
                     /\ lastOutcome' = "running"
           /\ fileIdx' = 1
           /\ remaining_ms' = None
           /\ results' = NoResults
           /\ loaded' = {}
           /\ skipped' = {}
           /\ ssmPuts' = <<>>
           /\ tally' = NoTally
           /\ produced' = <<>>
           /\ lastCkptOk' = FALSE
           /\ prevOutcome' = lastOutcome
           /\ prevCkptOk' = lastCkptOk
           /\ chunks' = <<>>
           /\ vectors_to_store' = <<>>
           /\ batch_i' = 0
           /\ store_result' = NoStoreResult
           /\ UNCHANGED <<ssm, vectorIndex>>
  /\ UNCHANGED libVars

\* the remaining time read, and the loop left, before the checkpoint of a
\* file as well
TimeCheckBeforeCheckpoint ==
  /\ pc \in {"check", "checkpoint"}
  /\ fileIdx <= Len(files_sorted)
  /\ IF HasTimeSignal(context)
       THEN \E r \in RemainingChoices :
              /\ remaining_ms' = Some(r)
              /\ pc' = IF ShouldStopEarly(HasTimeSignal(context), r)
                         THEN "paused" ELSE "load"
       ELSE /\ remaining_ms' = remaining_ms
            /\ pc' = "load"
  /\ pc = "checkpoint" => pc' = "paused"
  /\ UNCHANGED <<ssm, vectorIndex, context, last_date, read_outcome, new_files,
                 files_sorted, fileIdx, perFile, results, response, faults,
                 loaded, skipped, ssmPuts, tally, lastOutcome, lastCkptOk,
                 prev>>
  /\ UNCHANGED produced
  /\ UNCHANGED libVars

\* head of the loop: the remaining-time check before a file
TimeCheck ==
  /\ pc = "check"
  /\ fileIdx <= Len(files_sorted)
  /\ IF HasTimeSignal(context)
       THEN \E r \in RemainingChoices :
              /\ remaining_ms' = Some(r)
              /\ pc' = IF ShouldStopEarly(HasTimeSignal(context), r)
                         THEN "paused" ELSE "load"
       ELSE /\ remaining_ms' = remaining_ms
            /\ pc' = "load"
  /\ UNCHANGED <<ssm, vectorIndex, context, last_date, read_outcome, new_files,
                 files_sorted, fileIdx, perFile, results, response, faults,
                 loaded, skipped, ssmPuts, tally, lastOutcome, lastCkptOk,
                 prev>>
  /\ UNCHANGED produced
  /\ UNCHANGED libVars

\* the loop has run through files_sorted
LoopEnd ==
  /\ pc = "check"
  /\ fileIdx > Len(files_sorted)
  /\ pc' = "done"
  /\ UNCHANGED <<ssm, vectorIndex, context, last_date, read_outcome, new_files,
                 files_sorted, fileIdx, remaining_ms, perFile, results,
                 response, faults, loaded, skipped, ssmPuts, tally,
                 lastOutcome, lastCkptOk, prev>>
  /\ UNCHANGED produced
  /\ UNCHANGED libVars

\* an empty list taken for something to work on
NothingToDoNever(items) == FALSE

\* "if not messages: continue", "if not chunks: continue"
NothingToDo(items) == Len(items) = 0

\* load, deduplicate and chunk the current file
Load ==
  /\ pc = "load"
  /\ \E getFails \in BOOLEAN, now \in NowChoices :
       LET f == CurrentFile
           messages == loadAndTransformMessages(f, getFails)
           unique_messages == Dedupe(messages, {})
           res == chunkByConversation(unique_messages, f.room_id,
                                      DefaultGapMinutes, DefaultMaxMessages,
                                      DefaultMaxChars, now)
           loadFailed == getFails \/ BodyOf(f.key) = None
       IN  /\ getFails => faults < MaxFaults
           /\ faults' = IF getFails THEN faults + 1 ELSE faults
           /\ loaded' = loaded \cup {f.key}
           /\ IF NothingToDo(messages)
                THEN \* continue
                     /\ pc' = "check"
                     /\ fileIdx' = AfterSkip(fileIdx, Len(files_sorted))
                     /\ skipped' = IF loadFailed THEN skipped \cup {f.key}
                                   ELSE skipped
                     /\ tally' = IF loadFailed
                                   THEN [tally EXCEPT !.source = @ + 1]
                                   ELSE tally
                     /\ UNCHANGED <<chunks, results>>
                ELSE IF res.raised
                THEN \* except Exception
                     /\ pc' = "check"
                     /\ fileIdx' = AfterSkip(fileIdx, Len(files_sorted))
                     /\ skipped' = skipped \cup {f.key}
                     /\ tally' = [tally EXCEPT !.source = @ + 1]
                     /\ results' = [results EXCEPT !.errors =
                                      Append(@, [file |-> f.key,
                                                 error |-> "err"])]
                     /\ UNCHANGED chunks
                ELSE IF NothingToDo(res.chunks)
                THEN \* continue
                     /\ pc' = "check"
                     /\ fileIdx' = AfterSkip(fileIdx, Len(files_sorted))
                     /\ UNCHANGED <<chunks, results, skipped, tally>>
                ELSE /\ pc' = "embed"
                     /\ chunks' = res.chunks
                     /\ UNCHANGED <<fileIdx, results, skipped, tally>>
           /\ produced' = IF Len(messages) = 0 \/ res.raised THEN produced
                          ELSE produced \o
                                 [i \in 1..Len(res.chunks) |->
                                    [file |-> f.key,
                                     chunk_id |-> res.chunks[i].chunk_id]]
  /\ UNCHANGED <<ssm, vectorIndex, context, last_date, read_outcome, new_files,
                 files_sorted, remaining_ms, vectors_to_store, batch_i,
                 store_result, response, ssmPuts, lastOutcome, lastCkptOk, prev>>
  /\ UNCHANGED libVars

\* embed the chunk texts and prepare the vectors
Embed ==
  /\ pc = "embed"
  /\ \E failing \in SUBSET (1..Len(chunks)) :
       LET texts == [i \in 1..Len(chunks) |-> chunks[i].text]
           embedding_results == getEmbeddingsParallel(texts, failing)
           vs == PrepareVectors(chunks, embedding_results, ProjectId)
       IN  /\ faults + Cardinality(failing) <= MaxFaults
           /\ faults' = faults + Cardinality(failing)
           /\ tally' = [tally EXCEPT !.embedding = @ + Cardinality(failing)]
           /\ results' = [results EXCEPT !.errors =
                            @ \o EmbeddingErrors(CurrentFile, chunks,
                                                 embedding_results)]
           /\ vectors_to_store' = vs
           /\ batch_i' = 0
           /\ store_result' = NoStoreResult
           /\ pc' = IF Len(vs) > 0 THEN "write" ELSE "checkpoint"
  /\ UNCHANGED <<ssm, vectorIndex, context, last_date, read_outcome, new_files,
                 files_sorted, fileIdx, remaining_ms, chunks, response, loaded,
                 skipped, ssmPuts, lastOutcome, lastCkptOk, prev>>
  /\ UNCHANGED produced
  /\ UNCHANGED libVars

\* storeVectorsBatch: one iteration (one put_vectors call); after the last
\* one the function returns and processNewFiles adds up the result
WriteBatch ==
  /\ pc = "write"
  /\ RangeHasNext(batch_i, Len(vectors_to_store))
  /\ \E putFails \in BOOLEAN :
       LET batch == BatchAt(vectors_to_store, batch_i, BatchSize)
           sr == IF putFails
                   THEN [store_result EXCEPT !.errors =
                           Append(@, [batch_start |-> batch_i, error |-> "err"])]
                   ELSE [store_result EXCEPT !.stored = StoredAfter(@, batch)]
           last == ~RangeHasNext(batch_i + BatchSize, Len(vectors_to_store))
       IN  /\ putFails => faults < MaxFaults
           /\ faults' = IF putFails THEN faults + 1 ELSE faults
           /\ tally' = IF putFails THEN [tally EXCEPT !.batch = @ + 1]
                        ELSE [tally EXCEPT !.written = @ + Len(batch)]
           /\ vectorIndex' = IF putFails THEN vectorIndex
                             ELSE PutVectors(vectorIndex, batch)
           /\ store_result' = sr
           /\ batch_i' = batch_i + BatchSize
           /\ IF last
                THEN /\ pc' = "checkpoint"
                     /\ results' = [results EXCEPT
                                      !.vectors_stored = @ + sr.stored,
                                      !.errors = @ \o sr.errors]
                ELSE /\ pc' = "write"
                     /\ UNCHANGED results
  /\ UNCHANGED <<ssm, context, last_date, read_outcome, new_files, files_sorted,
                 fileIdx, remaining_ms, chunks, vectors_to_store, response,
                 loaded, skipped, ssmPuts, lastOutcome, lastCkptOk, prev>>
  /\ UNCHANGED produced
  /\ UNCHANGED libVars

\* files_processed += 1 and the checkpoint after the file
Checkpoint ==
  /\ pc = "checkpoint"
  /\ \E putFails \in BOOLEAN :
       /\ putFails => faults < MaxFaults
       /\ faults' = IF putFails THEN faults + 1 ELSE faults
       /\ ssm' = setLastProcessedDate(ssm, CheckpointDate(CurrentFile), putFails)
       /\ ssmPuts' = IF putFails THEN ssmPuts
                     ELSE Append(ssmPuts, CheckpointDate(CurrentFile))
       /\ lastCkptOk' = (~putFails /\ fileIdx = Len(files_sorted))
  /\ results' = [results EXCEPT !.files_processed = @ + 1]
  /\ tally' = [tally EXCEPT !.checkpointed = @ + 1]
  /\ fileIdx' = fileIdx + 1
  /\ pc' = "check"
  /\ UNCHANGED <<vectorIndex, context, last_date, read_outcome, new_files,
                 files_sorted, remaining_ms, perFile, response, loaded,
                 skipped, lastOutcome, prev>>
  /\ UNCHANGED produced
  /\ UNCHANGED libVars

\* processNewFiles returns and the handler builds its response
Return ==
  /\ pc \in {"done", "paused"}
  /\ pc' = "idle"
  /\ response' = [statusCode |-> 200, message |-> "Sync complete",
                  files_processed |-> results.files_processed,
                  vectors_stored |-> results.vectors_stored,
                  errors |-> Len(results.errors)]
  /\ lastOutcome' = pc
  /\ ResetLocals
  /\ UNCHANGED <<ssm, vectorIndex, context, last_date, read_outcome, new_files,
                 faults, lastCkptOk, prev>>
  /\ UNCHANGED libVars

\* the Lambda is killed at its time limit while a file is being handled
Timeout ==
  /\ pc \in {"load", "embed", "write", "checkpoint"}
  /\ faults < MaxFaults
  /\ faults' = faults + 1
  /\ pc' = "idle"
  /\ lastOutcome' = "killed"
  /\ response' = NoResponse
  /\ lastCkptOk' = FALSE
  /\ ResetLocals
  /\ UNCHANGED <<ssm, vectorIndex, context, last_date, read_outcome, new_files,
                 prev>>
  /\ UNCHANGED libVars

Next ==
  \/ Invoke
  \/ TimeCheck
  \/ LoopEnd
  \/ Load
  \/ Embed
  \/ WriteBatch
  \/ Checkpoint
  \/ Return
  \/ Timeout

Spec == Init /\ [][Next]_vars

\* the step injects no failure and does not pause before the first source
Calm == faults' = 0 /\ ~(pc' = "paused" /\ fileIdx' = 1)

\* the driver with every downstream call succeeding and a time budget that
\* admits at least the first source of each invocation
ProgressNext ==
  \/ Invoke /\ Calm
  \/ TimeCheck /\ Calm
  \/ LoopEnd /\ Calm
  \/ Load /\ Calm
  \/ Embed /\ Calm
  \/ WriteBatch /\ Calm
  \/ Checkpoint /\ Calm
  \/ Return /\ Calm

ProgressSpec == Init /\ [][ProgressNext]_vars

TypeOK ==
  /\ pc \in {"idle", "check", "load", "embed", "write", "checkpoint", "done",
             "paused"}
  /\ fileIdx \in 1..(Len(files_sorted) + 1)
  /\ faults \in 0..MaxFaults

(***************************************************************************)
(* Properties of the sync driver                                           *)
(***************************************************************************)
Range(s) == {s[i] : i \in 1..Len(s)}

\* the candidate sources: the keys under feed/ that end in _chat.json
ChatKeys ==
  {Bucket[i].key : i \in {j \in 1..Len(Bucket) : EndsWithChatJson(Bucket[j].key)}}

\* the chunk_ids the segmenter produces from a source that loads
ProducedKeys ==
  [k \in ChatKeys |->
     LET f == FileInfo(k)
         res == chunkByConversation(
                  Dedupe(loadAndTransformMessages(f, FALSE), {}), f.room_id,
                  DefaultGapMinutes, DefaultMaxMessages, DefaultMaxChars,
                  CHOOSE now \in NowChoices : TRUE)
     IN  {res.chunks[i].chunk_id : i \in 1..Len(res.chunks)}]

StoredKeys == {v.key : v \in vectorIndex}

\* what an invocation that reads the stored cursor would discover
Discoverable == Range(getNewChatFiles(Bucket, ssm))

\* C1: if a batch write of a source's vectors failed, the step that follows
\* the write leaves the checkpoint cursor at its previous value and the
\* source stays discoverable for the next invocation.
C1_WriterFailureKeepsCursor ==
  [][(pc = "checkpoint" /\ Len(store_result.errors) > 0)
       => (ssm' = ssm /\ CurrentFile \in Discoverable')]_vars

\* C2: every source whose date is <= the cursor has a stored vector for
\* every chunk the segmenter produces from it.
C2_CursorCoversOnlyWrittenSources ==
  \A k \in ChatKeys :
     (ssm # None /\ FileInfo(k).date <= ssm[1]) => ProducedKeys[k] \subseteq StoredKeys

\* C3: the stored cursor only ever advances: no checkpoint write stores a
\* value smaller than the value stored before it.
C3_CursorMonotonic ==
  [][ssm # None => (ssm' # None /\ ssm'[1] >= ssm[1])]_vars

\* C4: a source that failed as a whole (load failure or exception) is still
\* discoverable when the invocation that skipped it ends.
C4_FailedSourceStaysEligible ==
  pc \in {"done", "paused"} =>
     \A k \in skipped : FileInfo(k) \in Discoverable

\* C5: the cursor is written only at the checkpoint step of a source, after
\* every batch write of that source has returned, and the value written is
\* that source's date.
C5_WriteThenCheckpoint ==
  [][(ssm' # ssm \/ Len(ssmPuts') > Len(ssmPuts))
       => /\ pc = "checkpoint"
          /\ batch_i >= Len(vectors_to_store) \/ Len(vectors_to_store) = 0
          /\ store_result.stored + BatchSize * Len(store_result.errors)
               >= Len(vectors_to_store)
          /\ ssm' = Some(CurrentFile.date)
          /\ ssmPuts' = Append(ssmPuts, CurrentFile.date)]_vars

\* a source written in two batches has been checkpointed
C5_Witness ==
  /\ pc = "check"
  /\ fileIdx > 1
  /\ Len(ssmPuts) > 0
  /\ Len(vectors_to_store) = 2
  /\ batch_i >= 2
  /\ ssm = Some(files_sorted[fileIdx - 1].date)

\* C6: a failed read of the checkpoint does not make discovery run without
\* a date filter while a cursor is stored.
C6_ReadErrorIsNotAbsence ==
  ~(read_outcome = "error" /\ ssm # None /\ last_date = None
      /\ Len(new_files) > 0)

\* every source that produces chunks has all of them stored
AllSourcesWritten == \A k \in ChatKeys : ProducedKeys[k] \subseteq StoredKeys

\* C7: with no failure and a first time check that always passes
\* (ProgressSpec), repeated invocations eventually write the vectors of
\* every source.  The cursor moves only at a checkpoint, so an invocation
\* that discovers nothing is followed only by invocations that discover
\* nothing: every source must have been written when that happens.
C7_NoSourceLeftBehind ==
  (pc = "idle" /\ lastOutcome = "nonew") => AllSourcesWritten

\* C8: a reading below the safety margin at the check before a source stops
\* the loop; a source is started only on a reading at or above the margin;
\* once paused, nothing at or after that source has been loaded and the
\* invocation only returns, leaving cursor, index and counters as they are.
C8_BudgetPause ==
  [][/\ (pc = "check" /\ fileIdx <= Len(files_sorted) /\ HasTimeSignal(context)
           /\ remaining_ms' # None /\ remaining_ms'[1] < SafetyMarginMs)
          => pc' = "paused"
     /\ (pc = "check" /\ pc' = "load" /\ HasTimeSignal(context))
          => (remaining_ms' # None /\ remaining_ms'[1] >= SafetyMarginMs)
     /\ pc = "paused"
          => /\ loaded = {files_sorted[j].key : j \in 1..(fileIdx - 1)}
             /\ ssmPuts # <<>> => ssm = Some(ssmPuts[Len(ssmPuts)])
             /\ pc' = "idle"
             /\ ssm' = ssm
             /\ vectorIndex' = vectorIndex
             /\ response'.files_processed = results.files_processed
             /\ response'.vectors_stored = results.vectors_stored]_vars

\* the loop paused after it had processed and checkpointed a source
C8_Witness ==
  /\ pc = "paused"
  /\ fileIdx > 1
  /\ fileIdx <= Len(files_sorted)
  /\ Len(ssmPuts) > 0
  /\ remaining_ms = Some(SafetyMarginMs - 1)

C10_DiscoverExactlyNewer ==
  /\ lastOutcome \in {"running", "nonew"} =>
       /\ Range(new_files) =
            {FileInfo(k) : k \in {c \in ChatKeys :
                 last_date = None \/ FileInfo(c).date > last_date[1]}}
       /\ \A i, j \in 1..Len(new_files) :
            new_files[i] = new_files[j] => i = j
  /\ \A k \in loaded :
       /\ k \in ChatKeys
       /\ last_date = None \/ FileInfo(k).date > last_date[1]

\* an invocation read a cursor, discovered some but not all candidates and
\* loaded one of them
C10_Witness ==
  /\ last_date # None
  /\ Len(new_files) > 0
  /\ Len(new_files) < Cardinality(ChatKeys)
  /\ loaded # {}

\* a sequence of naturals that never steps down
NonDecreasing(s) == \A i \in 1..(Len(s) - 1) : s[i] <= s[i + 1]

\* the dates of a sequence of file records
DatesOf(files) == [i \in 1..Len(files) |-> files[i].date]

\* C11: whatever order discovery returned the sources in, the loop walks
\* them in non-decreasing date order (files_sorted holds the discovered
\* sources, each once, with dates that never step down, and the sources
\* loaded so far are a prefix of it); the values written to the checkpoint
\* during the invocation never step down, and each is greater than the
\* cursor the invocation read.
C11_AscendingOrder ==
  /\ NonDecreasing(DatesOf(files_sorted))
  /\ pc # "idle" =>
        /\ Len(files_sorted) = Len(new_files)
        /\ Range(files_sorted) = Range(new_files)
        /\ \E n \in {fileIdx - 1, fileIdx} :
             /\ n <= Len(files_sorted)
             /\ loaded = {files_sorted[j].key : j \in 1..n}
  /\ NonDecreasing(ssmPuts)
  /\ last_date # None => \A i \in 1..Len(ssmPuts) : ssmPuts[i] > last_date[1]

\* discovery returned the sources out of date order, the invocation read a
\* cursor and has already written two different checkpoint values
C11_Witness ==
  /\ last_date # None
  /\ ~NonDecreasing(DatesOf(new_files))
  /\ Len(ssmPuts) >= 2
  /\ ssmPuts[1] < ssmPuts[Len(ssmPuts)]

\* C12: an invocation whose context is None or has no
\* get_remaining_time_in_millis never reads a remaining time and never
\* pauses, and when its loop ends every discovered source has been attempted.
C12_NoSignalNoPause ==
  context \in {"none", "plain"} =>
    /\ pc # "paused"
    /\ lastOutcome # "paused"
    /\ remaining_ms = None
    /\ pc = "done" => loaded = {files_sorted[j].key : j \in 1..Len(files_sorted)}

\* the loop of an invocation given a context without the method has ended
\* after several sources, one of them checkpointed
C12_Witness ==
  /\ context = "plain"
  /\ pc = "done"
  /\ Len(files_sorted) >= 2
  /\ Cardinality(loaded) = Len(files_sorted)
  /\ results.files_processed >= 1

\* the failures of units of work counted so far in the invocation
FailuresIn(t) == t.embedding + t.batch + t.source

\* C13: a step in which a unit of work fails (an embedding call, a batch
\* write, the load or the processing of a source) leaves the loop running:
\* it goes on with the same source or with the time check before the next
\* one; the loop ends only when every discovered source has been attempted,
\* and processNewFiles then returns its results to the handler, which
\* answers 200.
C13_FailureIsolation ==
  [][/\ (FailuresIn(tally') > FailuresIn(tally))
          => /\ pc' \in {"check", "write", "checkpoint"}
             /\ pc' = "check" => fileIdx' = fileIdx + 1
             /\ pc' # "check" => fileIdx' = fileIdx
     /\ pc' = "done"
          => loaded' = {files_sorted'[j].key : j \in 1..Len(files_sorted')}
     /\ (pc = "done" /\ pc' = "idle")
          => /\ response'.statusCode = 200
             /\ response'.files_processed = results.files_processed]_vars

\* the loop has ended after a source failed as a whole and a call for
\* another source failed, with sources checkpointed besides
C13_Witness ==
  /\ pc = "done"
  /\ tally.source >= 1
  /\ tally.embedding + tally.batch >= 1
  /\ results.files_processed >= 2
  /\ Cardinality(loaded) = Len(files_sorted)

\* C14: when processNewFiles returns, the summary's error count is the
\* number of failures that occurred in the invocation (failed embedding
\* calls, failed batch writes, sources whose load or processing failed),
\* vectors_stored is the number of vectors in the batches whose put
\* succeeded, and files_processed is the number of sources that reached
\* the checkpoint.
C14_ErrorAccounting ==
  [][(pc \in {"done", "paused"} /\ pc' = "idle")
       => /\ response'.errors = FailuresIn(tally)
          /\ response'.vectors_stored = tally.written
          /\ response'.files_processed = tally.checkpointed]_vars

(***************************************************************************)
(* getEmbeddingsParallel: the executor, its workers and as_completed       *)
(***************************************************************************)
MaxTexts == 3

MaxWorkers == 2

\* the texts a call is given; a text may occur twice
TextPool == {<<"a">>, <<"b">>}

\* the sequences over S of length at most n
SeqsUpTo(S, n) == UNION {[1..k -> S] : k \in 0..n}

\* embedSingle(index, text): the result record of one task
embedSingle(index, text, raises) ==
  IF raises
    THEN [index |-> index, embedding |-> None, error |-> Some("err")]
    ELSE [index |-> index, embedding |-> Some(getEmbedding(text)),
          error |-> None]

\* a worker taken although max_workers calls are running
WorkerFreeOneMore(running, max_workers) == Cardinality(running) <= max_workers

\* ThreadPoolExecutor(max_workers): a queued task begins only in a free worker
WorkerFree(running, max_workers) == Cardinality(running) < max_workers

\* the result stored in the order the futures are yielded
ResultSlotArrival(result, collected) == collected + 1

\* "results[result['index']] = result" (the model's sequences count from 1)
ResultSlot(result, collected) == result.index + 1

\* the loop left when the first future has been yielded
AllYieldedFirstOnly(yielded, texts) == Len(yielded) >= Min2(1, Len(texts))

\* "for future in as_completed(futures)" ends when every future was yielded
AllYielded(yielded, texts) == Len(yielded) = Len(texts)

\* a call of getEmbeddingsParallel(texts, max_workers): results = [None] * n
EmbedInit ==
  /\ DriverInit /\ WriterIdle /\ ChunkerIdle /\ PureIdle
  /\ eTexts \in SeqsUpTo(TextPool, MaxTexts)
  /\ eMaxWorkers \in 1..MaxWorkers
  /\ eNext = 0
  /\ eQueue = <<>>
  /\ eRunning = {}
  /\ eDone = {}
  /\ eResults = [i \in 1..Len(eTexts) |-> None]
  /\ eYielded = <<>>
  /\ eCount = [i \in 1..Len(eTexts) |-> [submitted |-> 0, called |-> 0]]
  /\ eFailed = {}
  /\ ePc = "run"

\* executor.submit(embedSingle, i, text) for the next text
EmbedSubmit ==
  /\ ePc = "run"
  /\ eNext < Len(eTexts)
  /\ eQueue' = Append(eQueue, eNext)
  /\ eCount' = [eCount EXCEPT ![eNext + 1].submitted = @ + 1]
  /\ eNext' = eNext + 1
  /\ UNCHANGED <<eTexts, eMaxWorkers, eRunning, eDone, eResults, eYielded,
                 eFailed, ePc>>
  /\ UNCHANGED <<driverVars, writerVars, chunkerVars, pureVars>>

\* a worker takes the oldest queued task and calls getEmbedding
EmbedStart ==
  /\ ePc = "run"
  /\ Len(eQueue) > 0
  /\ WorkerFree(eRunning, eMaxWorkers)
  /\ eRunning' = eRunning \cup {Head(eQueue)}
  /\ eQueue' = Tail(eQueue)
  /\ eCount' = [eCount EXCEPT ![Head(eQueue) + 1].called = @ + 1]
  /\ UNCHANGED <<eTexts, eMaxWorkers, eNext, eDone, eResults, eYielded,
                 eFailed, ePc>>
  /\ UNCHANGED <<driverVars, writerVars, chunkerVars, pureVars>>

\* a running getEmbedding call returns or raises; embedSingle returns
EmbedFinish ==
  /\ ePc = "run"
  /\ \E i \in eRunning, raises \in BOOLEAN :
       /\ eRunning' = eRunning \ {i}
       /\ eDone' = eDone \cup {embedSingle(i, eTexts[i + 1], raises)}
       /\ eFailed' = IF raises THEN eFailed \cup {i} ELSE eFailed
  /\ UNCHANGED <<eTexts, eMaxWorkers, eNext, eQueue, eResults, eYielded,
                 eCount, ePc>>
  /\ UNCHANGED <<driverVars, writerVars, chunkerVars, pureVars>>

\* one iteration of "for future in as_completed(futures)": some finished
\* future is yielded and its result stored
EmbedCollect ==
  /\ ePc = "run"
  /\ eNext = Len(eTexts)
  /\ \E result \in eDone :
       /\ eDone' = eDone \ {result}
       /\ eResults' = [eResults EXCEPT ![ResultSlot(result, Len(eYielded))] =
                         Some(result)]
       /\ eYielded' = Append(eYielded, result.index)
  /\ UNCHANGED <<eTexts, eMaxWorkers, eNext, eQueue, eRunning, eCount,
                 eFailed, ePc>>
  /\ UNCHANGED <<driverVars, writerVars, chunkerVars, pureVars>>

\* every future has been yielded: the with block ends, results is returned
EmbedReturn ==
  /\ ePc = "run"
  /\ eNext = Len(eTexts)
  /\ AllYielded(eYielded, eTexts)
  /\ ePc' = "returned"
  /\ UNCHANGED <<eTexts, eMaxWorkers, eNext, eQueue, eRunning, eDone,
                 eResults, eYielded, eCount, eFailed>>
  /\ UNCHANGED <<driverVars, writerVars, chunkerVars, pureVars>>

EmbedNext ==
  \/ EmbedSubmit
  \/ EmbedStart
  \/ EmbedFinish
  \/ EmbedCollect
  \/ EmbedReturn

EmbedSpec == EmbedInit /\ [][EmbedNext]_vars

\* C15: when getEmbeddingsParallel returns, results holds one result per
\* text in input order, whatever order the calls finished and the futures
\* were yielded in: result i carries index i and is the embedding of text i
\* or, if the call for text i raised, its error; it is what the one-step
\* getEmbeddingsParallel of the driver computes for the same failures.
C15_ResultsInInputOrder ==
  ePc = "returned" =>
    /\ Len(eResults) = Len(eTexts)
    /\ \A i \in 1..Len(eTexts) :
         /\ eResults[i] # None
         /\ eResults[i][1].index = i - 1
         /\ eResults[i][1] = embedSingle(i - 1, eTexts[i], (i - 1) \in eFailed)
    /\ [i \in 1..Len(eTexts) |-> eResults[i][1]]
         = getEmbeddingsParallel(eTexts, {i + 1 : i \in eFailed})

\* a call over three texts, two of them equal, returned after the call for
\* the second text raised, the other two succeeded and the futures were
\* yielded last text first
C15_Witness ==
  /\ ePc = "returned"
  /\ eYielded = <<2, 1, 0>>
  /\ Len(eTexts) = 3
  /\ eTexts[1] = eTexts[3]
  /\ eTexts[1] # eTexts[2]
  /\ eFailed = {1}
  /\ eResults[1][1].error = None
  /\ eResults[3][1].error = None

\* C16: never more than max_workers getEmbedding calls are running; each
\* text is submitted at most once and its getEmbedding called at most once,
\* each index is in one place only (queued, running, finished or stored),
\* and when the call returns each text was submitted and called exactly
\* once.
C16_BoundedParallelism ==
  /\ Cardinality(eRunning) <= eMaxWorkers
  /\ \A i \in 1..Len(eCount) :
       /\ eCount[i].submitted <= 1
       /\ eCount[i].called <= eCount[i].submitted
       /\ ePc = "returned" => eCount[i].submitted = 1 /\ eCount[i].called = 1
  /\ ePc # "idle" =>
       Len(eQueue) + Cardinality(eRunning) + Cardinality(eDone)
         + Len(eYielded) = eNext

\* every worker is busy while a submitted text waits in the queue
C16_Witness ==
  /\ ePc = "run"
  /\ Cardinality(eRunning) = eMaxWorkers
  /\ eMaxWorkers = MaxWorkers
  /\ Len(eQueue) > 0

(***************************************************************************)
(* storeVectorsBatch called on its own                                     *)
(***************************************************************************)
MaxVectors == 5

MaxBatchSize == 3

\* the vectors of one file: chunk ids of one room and date, numbered from 0
WriterVectors ==
  [i \in 1..MaxVectors |->
     [key |-> <<<<1>>, <<"date", 1>>, i - 1>>,
      embedding |-> getEmbedding(<<"t">>),
      metadata |-> [message_count |-> i]]]

\* a call of storeVectorsBatch(bucket_name, index_name, vectors, batch_size)
WriterInit ==
  /\ DriverInit /\ PoolIdle /\ ChunkerIdle /\ PureIdle
  /\ \E n \in 0..MaxVectors : wVectors = SubSeq(WriterVectors, 1, n)
  /\ wBatchSize \in 1..MaxBatchSize
  /\ wI = 0
  /\ wResult = NoStoreResult
  /\ wPuts = <<>>
  /\ wIndex = {}
  /\ wPc = "loop"

\* one iteration of the for loop: one put_vectors call for one batch
WriterPut ==
  /\ wPc = "loop"
  /\ RangeHasNext(wI, Len(wVectors))
  /\ \E putFails \in BOOLEAN :
       LET batch == BatchAt(wVectors, wI, wBatchSize)
       IN  /\ wPuts' = Append(wPuts, [start |-> wI, batch |-> batch,
                                      ok |-> ~putFails])
           /\ wIndex' = IF putFails THEN wIndex ELSE PutVectors(wIndex, batch)
           /\ wResult' = IF putFails
                           THEN [wResult EXCEPT !.errors =
                                   Append(@, [batch_start |-> wI,
                                              error |-> "err"])]
                           ELSE [wResult EXCEPT !.stored = StoredAfter(@, batch)]
  /\ wI' = wI + wBatchSize
  /\ UNCHANGED <<wVectors, wBatchSize, wPc>>
  /\ UNCHANGED <<driverVars, poolVars, chunkerVars, pureVars>>

\* the range is exhausted: {'stored': total_stored, 'errors': ...} returned
WriterReturn ==
  /\ wPc = "loop"
  /\ ~RangeHasNext(wI, Len(wVectors))
  /\ wPc' = "returned"
  /\ UNCHANGED <<wVectors, wBatchSize, wI, wResult, wPuts, wIndex>>
  /\ UNCHANGED <<driverVars, poolVars, chunkerVars, pureVars>>

WriterNext ==
  \/ WriterPut
  \/ WriterReturn

WriterSpec == WriterInit /\ [][WriterNext]_vars

RECURSIVE Flatten(_)
\* the sequences of a sequence, one after another
Flatten(ss) == IF Len(ss) = 0 THEN <<>> ELSE Head(ss) \o Flatten(Tail(ss))

RECURSIVE SumOf(_)
\* the sum of a sequence of naturals
SumOf(ns) == IF Len(ns) = 0 THEN 0 ELSE Head(ns) + SumOf(Tail(ns))

\* the batches of the put_vectors calls made so far, in call order
BatchesPut == [k \in 1..Len(wPuts) |-> wPuts[k].batch]

\* the number of batches of n vectors: n / batch_size rounded up
BatchCount(n, batch_size) == (n + batch_size - 1) \div batch_size

\* C17: the put_vectors calls of storeVectorsBatch carry, one call per
\* batch, non-empty slices of at most batch_size vectors that start at
\* 0, batch_size, 2 * batch_size, ... and follow one another in the input;
\* when the function returns the slices one after another are the input.
C17_BatchPartition ==
  wPc # "idle" =>
    /\ \A k \in 1..Len(wPuts) :
         /\ wPuts[k].start = (k - 1) * wBatchSize
         /\ Len(wPuts[k].batch) \in 1..wBatchSize
         /\ wPuts[k].batch = SubSeq(wVectors, wPuts[k].start + 1,
                                    wPuts[k].start + Len(wPuts[k].batch))
    /\ Flatten(BatchesPut) = SubSeq(wVectors, 1, Min2(wI, Len(wVectors)))
    /\ wPc = "returned" =>
         /\ Flatten(BatchesPut) = wVectors
         /\ Len(wPuts) = BatchCount(Len(wVectors), wBatchSize)

\* five vectors written in batches of two: two full batches and a last one
\* with a single vector
C17_Witness ==
  /\ wPc = "returned"
  /\ Len(wVectors) = 5
  /\ wBatchSize = 2
  /\ Len(wPuts) = 3
  /\ Len(wPuts[3].batch) = 1

\* the put_vectors calls that raised, in call order
FailedPuts == SelectSeq(wPuts, LAMBDA p : ~p.ok)

\* the sizes of the batches of the calls that succeeded / that raised
SizesOf(puts) == [k \in 1..Len(puts) |-> Len(puts[k].batch)]

\* C18: errors holds one record per failed put_vectors call, in call order,
\* with that batch's starting offset; the stored count is the sum of the
\* sizes of the batches whose call succeeded; a failure does not end the
\* loop, so on return every batch was attempted and stored plus the sizes
\* of the failed batches is the number of input vectors.
C18_FailedBatchRecorded ==
  wPc # "idle" =>
    /\ wResult.errors = [k \in 1..Len(FailedPuts) |->
                           [batch_start |-> FailedPuts[k].start,
                            error |-> "err"]]
    /\ wResult.stored = SumOf(SizesOf(SelectSeq(wPuts, LAMBDA p : p.ok)))
    /\ wPc = "returned" =>
         /\ Len(wPuts) = BatchCount(Len(wVectors), wBatchSize)
         /\ wResult.stored + SumOf(SizesOf(FailedPuts)) = Len(wVectors)

\* five vectors in batches of two: the second call raised, the first and
\* the last (a single vector) succeeded
C18_Witness ==
  /\ wPc = "returned"
  /\ Len(wPuts) = 3
  /\ wPuts[1].ok /\ ~wPuts[2].ok /\ wPuts[3].ok
  /\ wBatchSize = 2
  /\ wResult.stored = 3
  /\ wResult.errors = <<[batch_start |-> 2, error |-> "err"]>>

(***************************************************************************)
(* chunkByConversation called on its own                                   *)
(***************************************************************************)
MaxMessagesIn == 3

\* a message as loadAndTransformMessages hands it to the chunker
Msg(timestamp, sender, text) ==
  [timestamp |-> timestamp, sender |-> sender, text |-> text,
   room_id |-> <<1>>, message_id |-> None]

\* a timestamp string of the given form
Stamp(day, min, form) == Some([day |-> day, min |-> min, form |-> form])

\* the messages a call can be given: a first one, a resolution 25 minutes
\* later, a question 2 minutes and a plain message 15 minutes after the
\* resolution, and messages with a missing, a naive, an unparsable and a
\* fractional-second timestamp, the last 32 minutes after the question
MessagePool ==
  { Msg(T(1, 580), <<"a">>, <<"h","i">>),
    Msg(T(1, 605), <<"b">>, <<"T","h","x">>),
    Msg(T(1, 607), <<"a">>, <<"o","k","?">>),
    Msg(T(1, 620), <<"b">>, <<"o","k">>),
    Msg(None, <<"a">>, <<"h","i">>),
    Msg(Stamp(1, 610, "naive"), <<"b">>, <<"h","i">>),
    Msg(Stamp(0, 0, "bad"), <<"a">>, <<"h","i">>),
    Msg(Stamp(1, 639, "fracZ"), <<"b">>, <<"y","o">>) }

\* max_messages as passed by a caller: a small limit and the default
MaxMessagesChoices == {2, DefaultMaxMessages}

\* max_chars as passed by a caller: one rendered message, two rendered
\* messages, the default
MaxCharsChoices == {7, 14, DefaultMaxChars}

\* datetime.now() during the first call: day 1, a minute after the latest
\* message of the pool
FirstClock == MinutesPerDay + 640

\* datetime.now() during a second call: the same minute, or days later
ClockChoices == {FirstClock, 10 * MinutesPerDay}

\* a call of chunkByConversation about to be made
ChunkInit ==
  /\ DriverInit /\ PoolIdle /\ WriterIdle /\ PureIdle
  /\ cIn \in [messages : SeqsUpTo(MessagePool, MaxMessagesIn),
               channel_id : {<<1>>},
               gap_minutes : {DefaultGapMinutes},
               max_messages : MaxMessagesChoices,
               max_chars : MaxCharsChoices,
               now : {FirstClock}]
  /\ cOut = None
  /\ cAgain = None

\* the call runs and returns its chunks or ends in an exception
Segment ==
  /\ cIn # None
  /\ cOut = None
  /\ cOut' = Some(chunkByConversation(cIn.messages, cIn.channel_id,
                                      cIn.gap_minutes, cIn.max_messages,
                                      cIn.max_chars, cIn.now))
  /\ UNCHANGED <<cIn, cAgain>>
  /\ UNCHANGED <<driverVars, poolVars, writerVars, pureVars>>

\* the same call made once more, at the same or a later time
SegmentAgain ==
  /\ cOut # None
  /\ cAgain = None
  /\ \E now \in ClockChoices :
       cAgain' = Some(chunkByConversation(cIn.messages, cIn.channel_id,
                                         cIn.gap_minutes, cIn.max_messages,
                                         cIn.max_chars, now))
  /\ UNCHANGED <<cIn, cOut>>
  /\ UNCHANGED <<driverVars, poolVars, writerVars, pureVars>>

ChunkNext ==
  \/ Segment
  \/ SegmentAgain

ChunkSpec == ChunkInit /\ [][ChunkNext]_vars

\* message_count of the k-th chunk of a result
CountOf(res, k) == res.chunks[k].metadata.message_count[1]

\* the number of messages in the chunks before the k-th
CountBefore(res, k) == SumOf([j \in 1..(k - 1) |-> CountOf(res, j)])

\* the text of the run of count sorted messages that follows the first
\* before ones
RunText(messages, before, count) ==
  JoinLines([j \in 1..count |->
               Render(SortByTimestamp(messages)[before + j])])

\* C19: for any input the chunks of chunkByConversation are non-empty
\* runs of the sorted messages, each beginning where the one before ended,
\* and their message counts sum to the number of input messages; empty
\* input gives no chunk.
C19_SegmenterComplete ==
  cOut # None =>
    LET res == cOut[1]
        n == Len(res.chunks)
    IN  /\ \A k \in 1..n :
             /\ CountOf(res, k) >= 1
             /\ CountBefore(res, k) + CountOf(res, k) <= Len(cIn.messages)
             /\ res.chunks[k].text =
                  RunText(cIn.messages, CountBefore(res, k), CountOf(res, k))
        /\ CountBefore(res, n + 1) = Len(cIn.messages)
        /\ Len(cIn.messages) = 0 => n = 0

\* C20: every chunk of chunkByConversation has at most max_messages
\* messages, and its text is at most max_chars characters long unless the
\* chunk is a single message.
C20_SizeBounds ==
  cOut # None =>
    \A k \in 1..Len(cOut[1].chunks) :
      /\ CountOf(cOut[1], k) <= cIn.max_messages
      /\ \/ Len(cOut[1].chunks[k].text) <= cIn.max_chars
         \/ CountOf(cOut[1], k) = 1

\* the k-th message of the input in sorted order
SortedAt(k) == SortByTimestamp(cIn.messages)[k]

\* minutes from the j-th to the next sorted message, as the call at clock
\* reading now measures them
GapAfter(j, now) ==
  parseTimestamp(SortedAt(j + 1).timestamp, now).minute
    - parseTimestamp(SortedAt(j).timestamp, now).minute

\* C21: in every chunk chunkByConversation returns, each message follows
\* the one before it in the chunk by at most gap_minutes.
C21_GapWithinChunk ==
  cOut # None =>
    \A k \in 1..Len(cOut[1].chunks) :
      \A j \in 1..(CountOf(cOut[1], k) - 1) :
        GapAfter(CountBefore(cOut[1], k) + j, cIn.now) <= cIn.gap_minutes

\* three messages, the second 27 minutes after the first and the third 32
\* minutes after the second: the first two share a chunk, the third is alone
C21_Witness ==
  /\ cOut # None
  /\ Len(cIn.messages) = 3
  /\ Len(cOut[1].chunks) = 2
  /\ CountOf(cOut[1], 1) = 2
  /\ GapAfter(1, cIn.now) = 27
  /\ GapAfter(2, cIn.now) = 32
  /\ cIn.max_messages = DefaultMaxMessages
  /\ cIn.max_chars = DefaultMaxChars

\* what two calls are compared on: whether the call raised, and per chunk
\* its id, its number of messages (the boundaries) and its topic tags
Outline(res) ==
  [raised |-> res.raised,
   chunks |-> [k \in 1..Len(res.chunks) |->
                 [chunk_id |-> res.chunks[k].chunk_id,
                  message_count |-> CountOf(res, k),
                  topics |-> res.chunks[k].metadata.topics]]]

\* C22: two calls of chunkByConversation on the same messages with the
\* same gap_minutes, max_messages and max_chars give the same chunk
\* boundaries, chunk_ids and topic tags, whatever the timestamps are.
C22_Deterministic ==
  (cOut # None /\ cAgain # None) => Outline(cOut[1]) = Outline(cAgain[1])

\* C23: chunkByConversation returns a chunk sequence and does not raise,
\* whatever mix of well-formed, missing and unparsable timestamps it is
\* given.
C23_NeverRaises == cOut # None => ~cOut[1].raised

\* a boundary lies between the j-th and the next sorted message
BoundaryAfter(res, j) == \E k \in 1..Len(res.chunks) : CountBefore(res, k + 1) = j

\* C24: in the chunks chunkByConversation returns, a message with a
\* resolution phrase and the next sorted message are in different chunks
\* when the next one's text has a question mark or comes more than 10
\* minutes later, also when the gap is within gap_minutes and no size limit
\* is reached.
C24_ResolutionSplit ==
  (cOut # None /\ ~cOut[1].raised) =>
    \A j \in 1..(Len(cIn.messages) - 1) :
      ( /\ detectResolution(SortedAt(j).text)
        /\ \/ Contains(SortedAt(j + 1).text, <<"?">>)
           \/ GapAfter(j, cIn.now) > 10 )
        => BoundaryAfter(cOut[1], j)

\* a resolution and a message without question mark 15 minutes later, with
\* the default limits: two chunks of one message
C24_Witness ==
  /\ cOut # None
  /\ ~cOut[1].raised
  /\ Len(cIn.messages) = 2
  /\ cIn.max_messages = DefaultMaxMessages
  /\ cIn.max_chars = DefaultMaxChars
  /\ detectResolution(SortedAt(1).text)
  /\ ~Contains(SortedAt(2).text, <<"?">>)
  /\ GapAfter(1, cIn.now) = 15
  /\ Len(cOut[1].chunks) = 2

\* the text holds a resolution phrase, whatever the case of its letters
HasResolutionPhrase(text) ==
  \E w \in 1..Len(RESOLUTION_WORDS) : Contains(Lower(text), RESOLUTION_WORDS[w])

\* the number of sorted messages before the chunk that holds the j-th
OpenStart(res, j) ==
  CountBefore(res, CHOOSE k \in 1..Len(res.chunks) :
                     /\ CountBefore(res, k) < j
                     /\ j <= CountBefore(res, k) + CountOf(res, k))

\* the running character count of the open chunk that ends with the j-th
\* sorted message: the lengths of its messages' rendered forms
OpenChars(res, j) ==
  SumOf([i \in 1..(j - OpenStart(res, j)) |->
           Len(Render(SortedAt(OpenStart(res, j) + i)))])

\* one of the four signals holds for the sorted message after the j-th
\* against the open chunk that ends with the j-th
SignalAfter(res, j) ==
  \/ GapAfter(j, cIn.now) > cIn.gap_minutes
  \/ j - OpenStart(res, j) >= cIn.max_messages
  \/ OpenChars(res, j) + Len(Render(SortedAt(j + 1))) > cIn.max_chars
  \/ /\ HasResolutionPhrase(SortedAt(j).text)
     /\ \/ Contains(SortedAt(j + 1).text, <<"?">>)
        \/ GapAfter(j, cIn.now) > 10

\* C29: in the chunks chunkByConversation returns, a chunk ends after a
\* sorted message and the next begins exactly when one of the four signals
\* holds for the next message against the open chunk (gap above gap_minutes,
\* open chunk of max_messages messages, running character count plus the
\* rendered message above max_chars, resolution follow-up); a single
\* message gives one chunk of one message.
C29_NoSpuriousBoundary ==
  (cOut # None /\ ~cOut[1].raised) =>
    /\ \A j \in 1..(Len(cIn.messages) - 1) :
         BoundaryAfter(cOut[1], j) <=> SignalAfter(cOut[1], j)
    /\ Len(cIn.messages) = 1 =>
         /\ Len(cOut[1].chunks) = 1
         /\ CountOf(cOut[1], 1) = 1

\* three messages some minutes apart for which no signal fires, with the
\* default limits: one chunk of three messages
C29_Witness ==
  /\ cOut # None
  /\ ~cOut[1].raised
  /\ Len(cIn.messages) = 3
  /\ cIn.max_messages = DefaultMaxMessages
  /\ cIn.max_chars = DefaultMaxChars
  /\ GapAfter(1, cIn.now) > 0
  /\ GapAfter(2, cIn.now) > 0
  /\ \A j \in 1..2 : ~SignalAfter(cOut[1], j)
  /\ Len(cOut[1].chunks) = 1
  /\ CountOf(cOut[1], 1) = 3

\* C25: no two chunks made in one invocation carry the same chunk_id (a
\* chunk_id names its room, so equal ids are ids of one room's chunks,
\* whichever of the room's files they come from).
C25_ChunkIdsUnique ==
  \A i \in 1..Len(produced) : \A j \in 1..Len(produced) :
    i # j => produced[i].chunk_id # produced[j].chunk_id

(***************************************************************************)
(* The deduplication loop of processNewFiles run on its own                *)
(***************************************************************************)
\* a message with the given message_id
MsgWithId(id, text) ==
  [timestamp |-> T(1, 600), sender |-> <<"a">>, text |-> text,
   room_id |-> <<1>>, message_id |-> id]

\* messages with two ids and without one, each with two texts
DedupePool ==
  {MsgWithId(id, text) : id \in {None, Some(1), Some(2)},
                         text \in {<<"x">>, <<"y">>}}

DedupeInit ==
  /\ DriverInit /\ PoolIdle /\ WriterIdle /\ ChunkerIdle
  /\ dMessages \in SeqsUpTo(DedupePool, MaxMessagesIn)
  /\ dUnique = None
  /\ tText = <<>>
  /\ tTopics = None
  /\ tTable = TOPIC_KEYWORDS
  /\ kMessages = <<>>
  /\ kChunk = None

\* the loop over messages with seen_ids = set() and unique_messages = []
DedupeCall ==
  /\ dUnique = None
  /\ dUnique' = Some(Dedupe(dMessages, {}))
  /\ UNCHANGED <<dMessages, tText, tTopics, tTable, kMessages, kChunk>>
  /\ UNCHANGED <<driverVars, poolVars, writerVars, chunkerVars>>

DedupeNext == DedupeCall

DedupeSpec == DedupeInit /\ [][DedupeNext]_vars

\* the positions of the messages that have no id or are the first with
\* their id, in increasing order
FirstOccurrences(messages) ==
  SelectSeq([i \in 1..Len(messages) |-> i],
            LAMBDA i : \/ messages[i].message_id = None
                       \/ \A j \in 1..(i - 1) :
                            messages[j].message_id # messages[i].message_id)

\* C26: the deduplicated messages are, in input order, every message
\* without a message_id and the first message of each message_id; no two of
\* them share a message_id.
C26_Dedupe ==
  dUnique # None =>
    LET unique == dUnique[1]
        first == FirstOccurrences(dMessages)
    IN  /\ unique = [k \in 1..Len(first) |-> dMessages[first[k]]]
        /\ \A i \in 1..Len(unique) : \A j \in 1..Len(unique) :
             (i # j /\ unique[i].message_id # None)
               => unique[i].message_id # unique[j].message_id
        /\ Len(SelectSeq(unique, LAMBDA m : m.message_id = None))
             = Len(SelectSeq(dMessages, LAMBDA m : m.message_id = None))

\* two messages with the same id and different texts around a message
\* without id: the first and the one without id are kept
C26_Witness ==
  /\ dUnique # None
  /\ Len(dMessages) = 3
  /\ dMessages[1].message_id = Some(1)
  /\ dMessages[2].message_id = None
  /\ dMessages[3].message_id = Some(1)
  /\ dMessages[1].text # dMessages[3].text
  /\ dUnique[1] = <<dMessages[1], dMessages[2]>>

\* the entries of a sequence after its first n
After(s, n) == SubSeq(s, n + 1, Len(s))

\* C27: when the embeddings of a source's chunks come back, each chunk
\* whose embedding failed adds one error naming the source and the chunk
\* and gets no vector; the vectors handed to the writer are those of the
\* other chunks, in chunk order; the source is not given up: it goes on to
\* the writer or, with no vector left, to the checkpoint.
C27_EmbeddingErrorSkipsChunk ==
  [][(pc = "embed" /\ pc' # "idle") =>
       LET failed == tally'.embedding - tally.embedding
           errs == After(results'.errors, Len(results.errors))
           errIds == {errs[i].chunk_id : i \in 1..Len(errs)}
           okChunks == SelectSeq(chunks, LAMBDA c : c.chunk_id \notin errIds)
       IN  /\ Len(errs) = failed
           /\ Cardinality(errIds) = failed
           /\ \A i \in 1..Len(errs) : errs[i].file = CurrentFile.key
           /\ vectors_to_store' =
                [i \in 1..Len(okChunks) |->
                   [key |-> okChunks[i].chunk_id,
                    embedding |-> getEmbedding(okChunks[i].text),
                    metadata |-> vectors_to_store'[i].metadata]]
           /\ Len(vectors_to_store') = Len(chunks) - failed
           /\ pc' = IF Len(vectors_to_store') > 0 THEN "write"
                    ELSE "checkpoint"
           /\ skipped' = skipped
           /\ fileIdx' = fileIdx]_vars

\* of the two chunks of a source one failed to embed; the other was
\* written and the source has been counted as processed
C27_Witness ==
  /\ pc = "check"
  /\ Len(chunks) = 2
  /\ tally.embedding = 1
  /\ tally.written = 1
  /\ tally.checkpointed = 1
  /\ Len(results.errors) = 1
  /\ skipped = {}

(***************************************************************************)
(* detectTopics called on its own                                          *)
(***************************************************************************)
MaxWords == 3

\* words a text is made of: keywords of four topics, one in capitals and
\* one capitalised, and a word that is no keyword
WordPool ==
  { <<"V","P","N">>, <<"t","f">>, <<"s","t","a","t","e">>, <<"s","3">>,
    <<"F","i","x">>, <<"h","i">> }

RECURSIVE JoinWords(_)
\* ' '.join(words)
JoinWords(words) ==
  IF Len(words) = 0 THEN <<>>
  ELSE IF Len(words) = 1 THEN words[1]
  ELSE words[1] \o <<" ">> \o JoinWords(Tail(words))

TopicsInit ==
  /\ DriverInit /\ PoolIdle /\ WriterIdle /\ ChunkerIdle
  /\ tText \in {JoinWords(ws) : ws \in SeqsUpTo(WordPool, MaxWords)}
  /\ tTopics = None
  /\ tTable = TOPIC_KEYWORDS
  /\ dMessages = <<>>
  /\ dUnique = None
  /\ kMessages = <<>>
  /\ kChunk = None

\* detectTopics(text)
TopicsCall ==
  /\ tTopics = None
  /\ tTopics' = Some(detectTopics(tText))
  /\ UNCHANGED <<tText, tTable, dMessages, dUnique, kMessages, kChunk>>
  /\ UNCHANGED <<driverVars, poolVars, writerVars, chunkerVars>>

TopicsNext == TopicsCall

TopicsSpec == TopicsInit /\ [][TopicsNext]_vars

\* the positions in TOPIC_KEYWORDS of the topics with a keyword contained
\* in the lower-cased text, in increasing order
TopicHits(text) ==
  SelectSeq([t \in 1..Len(TOPIC_KEYWORDS) |-> t],
            LAMBDA t : \E k \in 1..Len(TOPIC_KEYWORDS[t].keywords) :
                         Contains(Lower(text), TOPIC_KEYWORDS[t].keywords[k]))

\* C28: detectTopics returns a non-empty sequence: <<"general">> when no
\* keyword of any topic is contained in the lower-cased text, otherwise the
\* topics with a contained keyword, each once, in the order of
\* TOPIC_KEYWORDS, and without "general".
C28_DetectTopics ==
  tTopics # None =>
    LET topics == tTopics[1]
        hits == TopicHits(tText)
    IN  /\ Len(topics) >= 1
        /\ Len(hits) = 0 => topics = <<"general">>
        /\ Len(hits) > 0 =>
             /\ topics = [i \in 1..Len(hits) |-> TOPIC_KEYWORDS[hits[i]].topic]
             /\ \A i \in 1..Len(topics) : topics[i] # "general"
             /\ \A i \in 1..Len(topics) : \A j \in 1..Len(topics) :
                  i # j => topics[i] # topics[j]

\* "s3 VPN tf": keywords of three topics, in another order than the
\* configuration and VPN in capitals, a second terraform keyword aside
C28_Witness ==
  /\ tTopics # None
  /\ tText = <<"s","3"," ","V","P","N"," ","t","f">>
  /\ tTopics[1] = <<"vpn", "terraform", "aws">>

(***************************************************************************)
(* createChunk called on its own                                           *)
(***************************************************************************)
MaxChunkLen == 4

\* messages of one minute: a resolution in mixed case, one in capitals
\* inside a sentence, and a message without resolution word
CreatePool ==
  { Msg(T(1, 600), <<"a">>, <<"T","h","x">>),
    Msg(T(1, 600), <<"b">>, <<"i","s"," ","S","O","L","V","E","D">>),
    Msg(T(1, 600), <<"a">>, <<"o","k">>) }

CreateInit ==
  /\ DriverInit /\ PoolIdle /\ WriterIdle /\ ChunkerIdle
  /\ kMessages \in SeqsUpTo(CreatePool, MaxChunkLen) \ {<<>>}
  /\ kChunk = None
  /\ dMessages = <<>>
  /\ dUnique = None
  /\ tText = <<>>
  /\ tTopics = None
  /\ tTable = TOPIC_KEYWORDS

\* createChunk(messages, channel_id, index) for a non-empty current_chunk
CreateCall ==
  /\ Len(kMessages) > 0
  /\ kChunk = None
  /\ kChunk' = Some(createChunk(kMessages, <<1>>, 0))
  /\ UNCHANGED <<kMessages, dMessages, dUnique, tText, tTopics, tTable>>
  /\ UNCHANGED <<driverVars, poolVars, writerVars, chunkerVars>>

CreateNext == CreateCall

CreateSpec == CreateInit /\ [][CreateNext]_vars

\* C30: is_thread_complete of a chunk is true exactly when one of its last
\* three messages (of all of them when it has fewer) holds a resolution
\* phrase, matched as a substring regardless of case.
C30_ThreadComplete ==
  kChunk # None =>
    LET n == Len(kMessages)
        finals == {i \in 1..n : i > n - 3}
    IN  kChunk[1].metadata.is_thread_complete[1]
          = (\E i \in finals : HasResolutionPhrase(kMessages[i].text))

\* a chunk of four messages whose first holds a resolution phrase and whose
\* last three do not: the flag is false
C30_Witness ==
  /\ kChunk # None
  /\ Len(kMessages) = 4
  /\ HasResolutionPhrase(kMessages[1].text)
  /\ \A i \in 2..4 : ~HasResolutionPhrase(kMessages[i].text)
  /\ kChunk[1].metadata.is_thread_complete = Some(FALSE)

(***************************************************************************)
(* chunkByConversation on a conversation that ends in a resolution         *)
(***************************************************************************)
MaxThread == 4

\* messages at 10:00, 10:02, 10:05 ("thanks, fixed!") and 10:40, a
\* question at 10:06, and a second message of 10:02 whose timestamp is
\* written with fractional seconds
ThreadPool ==
  { Msg(T(1, 600), <<"a">>, <<"h","i">>),
    Msg(T(1, 602), <<"b">>, <<"o","k">>),
    Msg(Stamp(1, 602, "fracZ"), <<"a">>, <<"y","o">>),
    Msg(T(1, 605), <<"a">>,
        <<"t","h","a","n","k","s",","," ","f","i","x","e","d","!">>),
    Msg(T(1, 606), <<"b">>, <<"o","k","?">>),
    Msg(T(1, 640), <<"b">>, <<"h","i">>) }

ThreadInit ==
  /\ DriverInit /\ PoolIdle /\ WriterIdle /\ PureIdle
  /\ cIn \in [messages : SeqsUpTo(ThreadPool, MaxThread),
               channel_id : {<<1>>},
               gap_minutes : {DefaultGapMinutes},
               max_messages : MaxMessagesChoices,
               max_chars : {DefaultMaxChars},
               now : {FirstClock}]
  /\ cOut = None
  /\ cAgain = None

ThreadNext == Segment

ThreadSpec == ThreadInit /\ [][ThreadNext]_vars

\* the resolution-then-new-question heuristic holds between the j-th sorted
\* message and the next
ResolutionThenNew(j) ==
  /\ HasResolutionPhrase(SortedAt(j).text)
  /\ \/ Contains(SortedAt(j + 1).text, <<"?">>)
     \/ GapAfter(j, cIn.now) > 10

\* the index of the chunk of a result that holds the j-th sorted message
ChunkOf(res, j) ==
  CHOOSE k \in 1..Len(res.chunks) :
    /\ CountBefore(res, k) < j
    /\ j <= CountBefore(res, k) + CountOf(res, k)

\* C31: in the chunks chunkByConversation returns, a chunk that ends with a
\* resolution message followed by a question or by a message more than 10
\* minutes later has is_thread_complete = true, and the following message
\* is the first message of the next chunk.
C31_ResolutionChunkComplete ==
  (cOut # None /\ ~cOut[1].raised) =>
    \A j \in 1..(Len(cIn.messages) - 1) :
      (BoundaryAfter(cOut[1], j) /\ ResolutionThenNew(j)) =>
        LET k == ChunkOf(cOut[1], j)
            next == cOut[1].chunks[k + 1]
        IN  /\ cOut[1].chunks[k].metadata.is_thread_complete = Some(TRUE)
            /\ CountBefore(cOut[1], k + 1) = j
            /\ next.metadata.start_time = Some(Str(SortedAt(j + 1).timestamp))
            /\ next.text = RunText(cIn.messages, j, CountOf(cOut[1], k + 1))

\* the four messages of 10:00, 10:02, 10:05 and 10:40 with the default
\* limits: a first chunk of three messages marked complete and a second of
\* one message
C31_Witness ==
  /\ cOut # None
  /\ ~cOut[1].raised
  /\ Len(cIn.messages) = 4
  /\ cIn.max_messages = DefaultMaxMessages
  /\ \A j \in 1..4 : SortedAt(j).timestamp = T(1, <<600, 602, 605, 640>>[j])
  /\ ResolutionThenNew(3)
  /\ Len(cOut[1].chunks) = 2
  /\ CountOf(cOut[1], 1) = 3
  /\ CountOf(cOut[1], 2) = 1
  /\ cOut[1].chunks[1].metadata.is_thread_complete = Some(TRUE)

\* C32: the chunks chunkByConversation returns in one call carry the
\* indices 0, 1, 2, ... in the order of the result, each chunk_id is made
\* of the channel_id, the date part of the timestamp of the chunk's first
\* message and that index, and no two chunk_ids of the call are equal.
C32_OrdinalChunkIds ==
  (cOut # None /\ ~cOut[1].raised) =>
    LET res == cOut[1]
    IN  /\ \A k \in 1..Len(res.chunks) :
             res.chunks[k].chunk_id =
               <<cIn.channel_id,
                 ChunkDate(Str(SortedAt(CountBefore(res, k) + 1).timestamp)),
                 k - 1>>
        /\ \A k \in 1..Len(res.chunks) : \A l \in 1..Len(res.chunks) :
             k # l => res.chunks[k].chunk_id # res.chunks[l].chunk_id

\* a call that returns three chunks, all beginning on the same day: their
\* ids differ by the index alone
C32_Witness ==
  /\ cOut # None
  /\ ~cOut[1].raised
  /\ Len(cOut[1].chunks) = 3
  /\ \A k \in 1..3 : cOut[1].chunks[k].chunk_id[2] = <<"date", 1>>
  /\ \A k \in 1..3 : cOut[1].chunks[k].chunk_id[3] = k - 1

\* the instant a message's timestamp stands for, as the call reads it
InstantOf(msg) == parseTimestamp(msg.timestamp, cIn.now).minute

RECURSIVE StableInsert(_, _)
\* msg placed after every message whose instant is not later
StableInsert(sorted, msg) ==
  IF Len(sorted) = 0 THEN <<msg>>
  ELSE IF InstantOf(msg) < InstantOf(sorted[Len(sorted)])
         THEN Append(StableInsert(SubSeq(sorted, 1, Len(sorted) - 1), msg),
                     sorted[Len(sorted)])
         ELSE Append(sorted, msg)

RECURSIVE StableByInstant(_)
\* the one order of the messages that is non-decreasing in their instants
\* and keeps messages of equal instants in their input order
StableByInstant(messages) ==
  IF Len(messages) <= 1 THEN messages
  ELSE StableInsert(StableByInstant(SubSeq(messages, 1, Len(messages) - 1)),
                    messages[Len(messages)])

\* C33: the messages in the chunks chunkByConversation returns, read
\* chunk after chunk, are the input messages in non-decreasing timestamp
\* order, those of equal timestamps in their input order.
C33_StableTimestampOrder ==
  (cOut # None /\ ~cOut[1].raised) =>
    JoinLines([k \in 1..Len(cOut[1].chunks) |-> cOut[1].chunks[k].text])
      = JoinLines([i \in 1..Len(cIn.messages) |->
                     Render(StableByInstant(cIn.messages)[i])])

\* C34: the vectors processNewFiles prepares for a file are, in chunk order,
\* those of the file's chunks whose embedding did not fail (no error with
\* the chunk's chunk_id was appended): each has the chunk's chunk_id as key
\* and the embedding of the chunk's text, and its metadata has none of the
\* chunk's metadata entries whose value is None.
C34_VectorsFollowChunks ==
  [][(pc = "embed" /\ pc' # "idle") =>
       LET added == After(results'.errors, Len(results.errors))
           failedIds == {added[i].chunk_id : i \in 1..Len(added)}
           kept == SelectSeq(chunks, LAMBDA c : c.chunk_id \notin failedIds)
       IN  /\ Len(vectors_to_store') = Len(kept)
           /\ \A i \in 1..Len(kept) :
                LET v == vectors_to_store'[i]
                IN  /\ v.key = kept[i].chunk_id
                    /\ v.embedding = getEmbedding(kept[i].text)
                    /\ \A k \in DOMAIN v.metadata \cap DOMAIN kept[i].metadata :
                         /\ kept[i].metadata[k] # None
                         /\ v.metadata[k] = kept[i].metadata[k][1]]_vars

\* a file of two chunks whose first embedding failed: the one vector handed
\* to storeVectorsBatch is that of the second chunk
C34_Witness ==
  /\ pc = "write"
  /\ Len(chunks) = 2
  /\ chunks[1].text # chunks[2].text
  /\ Len(vectors_to_store) = 1
  /\ vectors_to_store[1].key = chunks[2].chunk_id
  /\ vectors_to_store[1].embedding = getEmbedding(chunks[2].text)
  /\ Len(results.errors) = 1
  /\ results.errors[1].chunk_id = chunks[1].chunk_id

(***************************************************************************)
(* processNewFiles with the worker pool of getEmbeddingsParallel running   *)
(* inside the embedding step                                               *)
(***************************************************************************)

\* getEmbeddingsParallel(texts, config['max_workers']) is called for the
\* chunks of the current file
EmbedBegin ==
  /\ pc = "embed"
  /\ ePc = "idle"
  /\ pc' = "embedding"
  /\ eTexts' = [i \in 1..Len(chunks) |-> chunks[i].text]
  /\ eMaxWorkers' \in 1..MaxWorkers
  /\ eNext' = 0
  /\ eQueue' = <<>>
  /\ eRunning' = {}
  /\ eDone' = {}
  /\ eResults' = [i \in 1..Len(chunks) |-> None]
  /\ eYielded' = <<>>
  /\ eCount' = [i \in 1..Len(chunks) |-> [submitted |-> 0, called |-> 0]]
  /\ eFailed' = {}
  /\ ePc' = "run"
  /\ UNCHANGED <<ssm, vectorIndex, context, last_date, read_outcome, new_files,
                 files_sorted, fileIdx, remaining_ms, perFile, results,
                 response, faults, loaded, skipped, ssmPuts, tally, produced,
                 lastOutcome, lastCkptOk, prev>>
  /\ UNCHANGED <<writerVars, chunkerVars, pureVars>>

\* getEmbeddingsParallel has returned and its executor is gone: the vectors
\* are prepared from its results
EmbedEnd ==
  /\ pc = "embedding"
  /\ ePc = "returned"
  /\ LET embedding_results == [i \in 1..Len(eResults) |-> eResults[i][1]]
         vs == PrepareVectors(chunks, embedding_results, ProjectId)
     IN  /\ faults' = faults + Cardinality(eFailed)
         /\ tally' = [tally EXCEPT !.embedding = @ + Cardinality(eFailed)]
         /\ results' = [results EXCEPT !.errors =
                          @ \o EmbeddingErrors(CurrentFile, chunks,
                                               embedding_results)]
         /\ vectors_to_store' = vs
         /\ batch_i' = 0
         /\ store_result' = NoStoreResult
         /\ pc' = IF Len(vs) > 0 THEN "write" ELSE "checkpoint"
  /\ UNCHANGED <<ssm, vectorIndex, context, last_date, read_outcome, new_files,
                 files_sorted, fileIdx, remaining_ms, chunks, response, loaded,
                 skipped, ssmPuts, lastOutcome, lastCkptOk, prev>>
  /\ UNCHANGED produced
  /\ eTexts' = <<>>
  /\ eMaxWorkers' = 1
  /\ eNext' = 0
  /\ eQueue' = <<>>
  /\ eRunning' = {}
  /\ eDone' = {}
  /\ eResults' = <<>>
  /\ eYielded' = <<>>
  /\ eCount' = <<>>
  /\ eFailed' = {}
  /\ ePc' = "idle"
  /\ UNCHANGED <<writerVars, chunkerVars, pureVars>>

\* the failures of getEmbedding calls count among the failures injected
\* into the invocation
WithinFaults == faults + Cardinality(eFailed') <= MaxFaults

SourcesNext ==
  \/ Invoke
  \/ TimeCheck
  \/ LoopEnd
  \/ Load
  \/ EmbedBegin
  \/ EmbedSubmit
  \/ EmbedStart
  \/ EmbedFinish /\ WithinFaults
  \/ EmbedCollect
  \/ EmbedReturn
  \/ EmbedEnd
  \/ WriteBatch
  \/ Checkpoint
  \/ Return

SourcesSpec == Init /\ [][SourcesNext]_vars

\* no getEmbedding task is queued, running or waiting to be collected
NoTaskInFlight == eQueue = <<>> /\ eRunning = {} /\ eDone = {}

\* the tasks of the pool are those of the current file; they are all over
\* when getEmbeddingsParallel returns, and none exists outside the
\* embedding step
TasksWithinSource ==
  /\ ePc \in {"run", "returned"} =>
       /\ pc = "embedding"
       /\ eTexts = [i \in 1..Len(chunks) |-> chunks[i].text]
  /\ ePc = "returned" =>
       /\ NoTaskInFlight
       /\ \A i \in 1..Len(eTexts) : eCount[i].called = 1
  /\ pc # "embedding" => ePc = "idle" /\ NoTaskInFlight

\* the steps between the files: writing begins only when the embedding call
\* has returned, a file is begun only at the check before it, and the loop
\* moves to the next file only from the checkpoint of the current one or
\* from a skip of it during its load
OneSourceAtATime ==
  /\ (pc' = "write" /\ pc # "write") =>
       pc = "embedding" /\ ePc = "returned" /\ NoTaskInFlight
  /\ (pc' = "load") => pc = "check" /\ fileIdx' = fileIdx
  /\ (pc' \in {"embed", "embedding", "write", "checkpoint"}) =>
       /\ pc \in {"load", "embed", "embedding", "write"}
       /\ fileIdx' = fileIdx
  /\ (pc' = "check" /\ pc # "idle") =>
       /\ pc \in {"load", "checkpoint"}
       /\ fileIdx' = fileIdx + 1

\* C35: the files of an invocation never overlap: the write of a file
\* begins only when no embedding task of it is in flight, and nothing of the
\* next file begins before the checkpoint step of the current file is over
\* or the file was skipped.
C35_SourcesNeverOverlap == []TasksWithinSource /\ [][OneSourceAtATime]_vars

\* a task of the second file of an invocation is running, after the two
\* vectors of the first file were written and the first file checkpointed
C35_Witness ==
  /\ pc = "embedding"
  /\ ePc = "run"
  /\ eRunning = {0}
  /\ fileIdx = 2
  /\ tally.written = 2
  /\ tally.checkpointed = 1
  /\ Len(ssmPuts) = 1

\* the file at fileIdx has passed the time check and is being handled
MidSource == pc \in {"load", "embed", "write", "checkpoint"}

\* C36: the remaining time is read only at the check before a file: while
\* a file is loaded, chunked, embedded, written and checkpointed no reading
\* is taken and the loop is not left for a pause, and a pause is decided
\* only at the check before a file, on the reading taken there.
C36_BudgetSampledBetweenSources ==
  [][/\ (MidSource /\ pc' # "idle") =>
          /\ remaining_ms' = remaining_ms
          /\ pc' # "paused"
          /\ pc' = "check" => fileIdx' = fileIdx + 1
     /\ (pc = "check" /\ pc' = "load") =>
          \/ ~HasTimeSignal(context)
          \/ /\ remaining_ms' # None
             /\ remaining_ms'[1] >= SafetyMarginMs
     /\ (pc' = "paused") =>
          /\ pc = "check"
          /\ HasTimeSignal(context)
          /\ remaining_ms' # None
          /\ remaining_ms'[1] < SafetyMarginMs
     /\ (remaining_ms' # remaining_ms) => pc \in {"check", "idle"} \/ pc' = "idle"
    ]_vars

\* a file that passed the check with no more than the margin left has been
\* written and checkpointed, and the next check has not been made yet
C36_Witness ==
  /\ pc = "check"
  /\ context = "lambda"
  /\ fileIdx = 2
  /\ remaining_ms = Some(SafetyMarginMs)
  /\ tally.written = 2
  /\ tally.checkpointed = 1
  /\ ssmPuts = <<CheckpointDate(files_sorted[1])>>

\* the step is the checkpoint of the current file with put_parameter raising
CheckpointWriteFails == pc = "checkpoint" /\ pc' # "idle" /\ faults' = faults + 1

\* C37: when put_parameter raises in setLastProcessedDate the invocation
\* goes on: the stored cursor keeps its value, no error is added to the
\* results, the file is counted in files_processed, and the loop moves to
\* the check before the next file.
C37_CheckpointFailureSwallowed ==
  [][CheckpointWriteFails =>
       /\ ssm' = ssm
       /\ ssmPuts' = ssmPuts
       /\ results'.errors = results.errors
       /\ results'.files_processed = results.files_processed + 1
       /\ results'.vectors_stored = results.vectors_stored
       /\ pc' = "check"
       /\ fileIdx' = fileIdx + 1
       /\ files_sorted' = files_sorted]_vars

\* the checkpoint write of the first file failed and nothing else did; the
\* second file was then processed and checkpointed, and the cursor holds
\* its date
C37_Witness ==
  /\ pc = "check"
  /\ fileIdx = 3
  /\ faults = 1
  /\ FailuresIn(tally) = 0
  /\ tally.checkpointed = 2
  /\ results.files_processed = 2
  /\ Len(results.errors) = 0
  /\ ssmPuts = <<CheckpointDate(files_sorted[2])>>
  /\ ssm = Some(CheckpointDate(files_sorted[2]))

\* the current file gives no messages in this step (its object cannot be
\* read or holds no message with a text), or its messages give no chunks
YieldsNothing ==
  /\ pc = "load"
  /\ pc' # "idle"
  /\ LET messages == loadAndTransformMessages(CurrentFile, faults' > faults)
     IN  \/ Len(messages) = 0
         \/ \E now \in NowChoices :
              LET res == chunkByConversation(Dedupe(messages, {}),
                                             CurrentFile.room_id,
                                             DefaultGapMinutes,
                                             DefaultMaxMessages,
                                             DefaultMaxChars, now)
              IN  ~res.raised /\ Len(res.chunks) = 0

\* C38: a file that gives no messages, or no chunks, is left at once for
\* the check before the next file: no embedding, no write and no
\* checkpoint step is taken for it, and the cursor, the stored vectors and
\* the counters files_processed and vectors_stored keep their values.
C38_EmptySourceNoEffect ==
  [][YieldsNothing =>
       /\ pc' = "check"
       /\ fileIdx' = fileIdx + 1
       /\ ssm' = ssm
       /\ ssmPuts' = ssmPuts
       /\ vectorIndex' = vectorIndex
       /\ results'.files_processed = results.files_processed
       /\ results'.vectors_stored = results.vectors_stored
       /\ tally'.written = tally.written
       /\ tally'.checkpointed = tally.checkpointed
       /\ tally'.embedding = tally.embedding
       /\ produced' = produced]_vars

\* the first file of a first run gave no messages: the loop is at the check
\* before the second file, nothing is stored, counted or checkpointed
C38_Witness ==
  /\ pc = "check"
  /\ fileIdx = 2
  /\ loaded = {files_sorted[1].key}
  /\ Len(loadAndTransformMessages(files_sorted[1], faults > 0)) = 0
  /\ results = NoResults
  /\ tally.written = 0
  /\ tally.checkpointed = 0
  /\ ssm = None
  /\ ssmPuts = <<>>
  /\ vectorIndex = {}

(***************************************************************************)
(* addTopicKeywords and detectTopics on the table it changes               *)
(***************************************************************************)
MaxAdds == 2

\* the keywords of an existing topic replaced by the new ones
addTopicKeywordsReplace(table, topic, keywords) ==
  IF \E i \in 1..Len(table) : table[i].topic = topic
    THEN [i \in 1..Len(table) |->
            IF table[i].topic = topic
              THEN [topic |-> topic, keywords |-> keywords]
              ELSE table[i]]
    ELSE Append(table, [topic |-> topic, keywords |-> keywords])

\* TOPIC_KEYWORDS after addTopicKeywords(topic, keywords): the keywords
\* extend the list of a topic that is a key, a new key is added last
addTopicKeywords(table, topic, keywords) ==
  IF \E i \in 1..Len(table) : table[i].topic = topic
    THEN [i \in 1..Len(table) |->
            IF table[i].topic = topic
              THEN [topic |-> topic, keywords |-> table[i].keywords \o keywords]
              ELSE table[i]]
    ELSE Append(table, [topic |-> topic, keywords |-> keywords])

\* the topic of a call: the first and a later key of the table, a new topic
\* and the name 'general'
TopicChoices == {"vpn", "aws", "billing", "general"}

\* the keywords of a call: none, one word, two words
KeywordChoices ==
  { <<>>,
    << <<"h", "i">> >>,
    << <<"s", "3">>, <<"f", "i", "x">> >> }

\* the texts classified: without a keyword, with keywords of one and of
\* three topics, and with words the calls add
KeywordTexts ==
  { <<"y", "o">>,
    <<"h", "i">>,
    <<"V", "P", "N">>,
    <<"F", "i", "x", " ", "h", "i">>,
    <<"s", "3", " ", "V", "P", "N", " ", "t", "f">>,
    <<"t", "f", " ", "h", "i">> }

KeywordsInit ==
  /\ DriverInit /\ PoolIdle /\ WriterIdle /\ ChunkerIdle
  /\ tText \in KeywordTexts
  /\ tTopics = None
  /\ tTable = TOPIC_KEYWORDS
  /\ dMessages = <<>>
  /\ dUnique = None
  /\ kMessages = <<>>
  /\ kChunk = None

\* the number of keywords in a table
KeywordCount(table) == SumOf([i \in 1..Len(table) |-> Len(table[i].keywords)])

\* addTopicKeywords(topic, keywords), called while the table has grown by
\* fewer than MaxAdds keys and keywords
AddKeywords ==
  /\ Len(tTable) + KeywordCount(tTable)
       < Len(TOPIC_KEYWORDS) + KeywordCount(TOPIC_KEYWORDS) + MaxAdds
  /\ \E topic \in TopicChoices, keywords \in KeywordChoices :
       tTable' = addTopicKeywords(tTable, topic, keywords)
  /\ UNCHANGED <<tText, tTopics, dMessages, dUnique, kMessages, kChunk>>
  /\ UNCHANGED <<driverVars, poolVars, writerVars, chunkerVars>>

\* detectTopics(text) with TOPIC_KEYWORDS as it is now
Classify ==
  /\ tTopics # Some(detectTopicsIn(tTable, tText))
  /\ tTopics' = Some(detectTopicsIn(tTable, tText))
  /\ UNCHANGED <<tText, tTable, dMessages, dUnique, kMessages, kChunk>>
  /\ UNCHANGED <<driverVars, poolVars, writerVars, chunkerVars>>

KeywordsNext ==
  \/ AddKeywords
  \/ Classify

KeywordsSpec == KeywordsInit /\ [][KeywordsNext]_vars

\* the topics of a result other than 'general'
NonGeneral(topics) == {topics[i] : i \in 1..Len(topics)} \ {"general"}

\* the position of a topic among the keys of a table
KeyIndex(table, topic) == CHOOSE i \in 1..Len(table) : table[i].topic = topic

\* C39: a call of addTopicKeywords keeps the keys of TOPIC_KEYWORDS in
\* their places and adds a new key last, and for every text the topics
\* other than 'general' that detectTopics returned before the call are
\* returned after it, in the same relative order, every result following
\* the order of the keys.
C39_AddKeepsTopics ==
  [][tTable' # tTable =>
       /\ Len(tTable') \in {Len(tTable), Len(tTable) + 1}
       /\ \A i \in 1..Len(tTable) : tTable'[i].topic = tTable[i].topic
       /\ \A text \in KeywordTexts :
            LET before == detectTopicsIn(tTable, text)
                after == detectTopicsIn(tTable', text)
            IN  /\ NonGeneral(before) \subseteq NonGeneral(after)
                /\ SelectSeq(after, LAMBDA t : t \in NonGeneral(before))
                     = SelectSeq(before, LAMBDA t : t # "general")
                /\ after # <<"general">> =>
                     \A i \in 1..Len(after) : \A j \in 1..Len(after) :
                       i < j => KeyIndex(tTable', after[i])
                                  < KeyIndex(tTable', after[j])]_vars

\* "s3 VPN tf" classified after a keyword list was added for the new topic
\* billing and a keyword with no match for vpn: the three topics of the
\* first table, in their order
C39_Witness ==
  /\ tText = <<"s", "3", " ", "V", "P", "N", " ", "t", "f">>
  /\ Len(tTable) = Len(TOPIC_KEYWORDS) + 1
  /\ tTable[Len(tTable)].topic = "billing"
  /\ Len(tTable[1].keywords) = Len(TOPIC_KEYWORDS[1].keywords) + 1
  /\ tTopics = Some(<<"vpn", "terraform", "aws">>)
  /\ tTopics = Some(detectTopicsIn(tTable, tText))

============================================================================
